---- MODULE Spec2Model ----
(***************************************************************************)
(* Englytics dictionary application (DictionaryApp).                       *)
(*                                                                         *)
(* The component is a React function component: every handler is a closure *)
(* created by the render that was current when the handler was started, so *)
(* a handler reads the state values (language, translationCache, ...) of   *)
(* that render for its whole run, also after its awaits, while the setters *)
(* write the component's current state.                                    *)
(*                                                                         *)
(*   Spec          the translation client translateText and its cache      *)
(*   SpecAggregate the merge of fetchRelatedWords as a function of the     *)
(*                 three result lists                                      *)
(*   SpecRelated   the handler fetchRelatedWords with its three requests   *)
(*   SpecHistory   handleSearch, addToHistory and the clear button while    *)
(*                 the requests of the searches stay unanswered            *)
(*   SpecSearch    handleSearch with the answers to its requests, and      *)
(*                 playAudio                                               *)
(*   SpecBulk      translateDefinitionsAndExamples after a lookup          *)
(*   SpecLoad      loadPersistedData on mount and the render after it      *)
(*   SpecFavorites toggleFavorite and the clear button of the favorites    *)
(*   SpecWrites    the handlers that write to localStorage, with writes    *)
(*                 that throw, in both versions of the handlers            *)
(*   SpecSearchLive searches whose requests are all answered in the end    *)
(*   SpecOverlap   two searches of different words in flight together      *)
(*   SpecLanguage  changeLanguage after a search                           *)
(***************************************************************************)
EXTENDS Integers, Sequences, FiniteSets, TLC

VARIABLES
    language,          \* state `language`
    translationCache,  \* state `translationCache`
    storedCache,       \* localStorage item 'translationCache'
    now,               \* Date.now(), in milliseconds
    calls,             \* the translateText calls made so far
    relatedWords,      \* state `relatedWords`
    error,             \* state `error`
    relCalls,          \* the fetchRelatedWords calls
    synonyms,          \* SpecAggregate: the three parsed result lists
    triggers,
    adjectives,
    aggregated,        \* SpecAggregate: the merge has run
    word,              \* state `word`
    history,           \* state `history`
    storedHistory,     \* localStorage item 'dictionaryHistory'
    definitions,       \* state `definitions`
    translation,       \* state `translation`
    loading,           \* state `loading`
    audioPlaying,      \* state `audioPlaying`
    definitionTranslations,  \* state `definitionTranslations`
    exampleTranslations,     \* state `exampleTranslations`
    audioLang,         \* the language of the render whose playAudio is playing
    searches,          \* the handleSearch calls made so far
    storage,           \* SpecLoad: the five saved items as the mount finds them
    boot,              \* SpecLoad: the five persisted states and the mount
    favorites,         \* state `favorites`
    storedFavorites,   \* localStorage item 'dictionaryFavorites'
    toggles,           \* the toggleFavorite calls and clearings made so far
    storedLanguage,    \* localStorage item 'dictionaryLanguage'
    version,           \* which of the two versions of the handlers runs
    changes            \* the changeLanguage calls made so far

trVars  == <<language, translationCache, storedCache, now, calls>>
relVars == <<relatedWords, error, relCalls>>
aggVars == <<synonyms, triggers, adjectives, aggregated>>
srVars  == <<word, history, storedHistory, definitions, translation, loading,
             audioPlaying, definitionTranslations, exampleTranslations,
             audioLang, searches>>
ldVars  == <<storage, boot>>
favVars == <<favorites, storedFavorites, toggles>>
uiVars  == <<favVars, storedLanguage, version>>
appVars == <<srVars, ldVars, uiVars, changes>>
vars    == <<trVars, relVars, aggVars, appVars>>

(***************************************************************************)
(* Bounds of the model.                                                    *)
(***************************************************************************)
MaxCalls   == 2   \* Spec: translateText calls in one behaviour
MaxLookups == 2   \* SpecExpiry: translateText calls in one behaviour
MaxTotal   == 3   \* SpecAggregate: items in the three short result lists
MaxRelCalls == 2  \* SpecRelated: fetchRelatedWords calls in one behaviour
MaxSearches == 3  \* SpecHistory: handleSearch calls in one behaviour
MaxOverlap == 1   \* SpecSearch: handleSearch calls in one behaviour
MaxBulk == 1      \* SpecBulk: handleSearch calls in one behaviour
MaxToggles == 2   \* SpecFavorites: toggles and clearings in one behaviour
MaxChanges == 1   \* SpecWrites, SpecLanguage: changeLanguage calls in one behaviour
MaxRace == 2      \* SpecOverlap: handleSearch calls in one behaviour

(***************************************************************************)
(* Translation cache.                                                      *)
(***************************************************************************)
Languages == {"en", "pt-BR"}

\* Cache valid for 24 hours
CACHE_TTL == 24 * 60 * 60 * 1000

\* The instants Date.now() takes.  SpecExpiry: stores at 0 or 1 and the
\* instants around their expiry.  Spec: a store at 0 and its expiry.
ExpiryInstants == {0, 1, CACHE_TTL - 1, CACHE_TTL, CACHE_TTL + 1}
Instants       == {0, CACHE_TTL}

Texts       == {"cat"}
CacheKeysIn == {"", "main-word-cat"}    \* "" is an omitted cacheKey

\* The words typed or clicked in the searches of SpecHistory
HistoryWords == {"Hello", "hello", "WORLD", "W3", "", "  "}

\* searchWord.trim(), on the words of the model
Trim(w) == IF w = "  " THEN "" ELSE w

\* word.toLowerCase(), on the words of the model
ToLowerCase(w) ==
    CASE w = "Hello" -> "hello"
      [] w = "WORLD" -> "world"
      [] w = "W3"    -> "w3"
      [] OTHER       -> w

\* `main-word-${word}`
MainWordKey(w) == "main-word-" \o w

\* `${def.word}-${meaning.partOfSpeech}-${defIndex}`, defIndex from 0
DefinitionKey(w, partOfSpeech, defIndex) ==
    w \o "-" \o partOfSpeech \o "-" \o ToString(defIndex)

\* `${def.word}-${meaning.partOfSpeech}-${defIndex}-example`
ExampleKey(w, partOfSpeech, defIndex) ==
    DefinitionKey(w, partOfSpeech, defIndex) \o "-example"

\* Bodies of the dictionary service (DictionaryResponse[]): an example of
\* "" is a definition without example
Definition(d, e) == [definition |-> d, example |-> e]
Meaning(partOfSpeech, ds) == [partOfSpeech |-> partOfSpeech, definitions |-> ds]
Entry(w, ms) == [word |-> w, meanings |-> ms]

OneDefinition ==
    <<Entry("cat", <<Meaning("noun", <<Definition("d1", "")>>)>>)>>
WithExample ==
    <<Entry("cat", <<Meaning("noun", <<Definition("d1", "e1"),
                                       Definition("d2", "")>>)>>)>>
TwoPartsOfSpeech ==
    <<Entry("cat", <<Meaning("noun", <<Definition("d1", "")>>),
                     Meaning("verb", <<Definition("d2", "e2")>>)>>)>>
SamePartOfSpeech ==
    <<Entry("cat", <<Meaning("noun", <<Definition("d1", "")>>),
                     Meaning("noun", <<Definition("d2", "e2")>>)>>)>>
Homographs ==
    <<Entry("cat", <<Meaning("noun", <<Definition("d1", "e1")>>)>>),
      Entry("cat", <<Meaning("noun", <<Definition("d2", "")>>)>>)>>

DictData ==
    {<<>>, OneDefinition, WithExample, TwoPartsOfSpeech, SamePartOfSpeech,
     Homographs}

\* The definitions of a body, each with its place: entry e, meaning m,
\* index i within the meaning (from 0, as forEach counts)
ItemsOf(data) ==
    UNION {UNION {{[e |-> e, m |-> m, i |-> i - 1] :
                      i \in 1..Len(data[e].meanings[m].definitions)} :
                  m \in 1..Len(data[e].meanings)} : e \in 1..Len(data)}

ItemDefinition(data, it) == data[it.e].meanings[it.m].definitions[it.i + 1]

ItemDefKey(data, it) ==
    DefinitionKey(data[it.e].word, data[it.e].meanings[it.m].partOfSpeech, it.i)

ItemExampleKey(data, it) ==
    ExampleKey(data[it.e].word, data[it.e].meanings[it.m].partOfSpeech, it.i)

\* The words of overlapping searches
OverlapWords == {"cat", "dog"}

AllKeys ==
    Texts \cup (CacheKeysIn \ {""})
        \cup {MainWordKey(w) : w \in (HistoryWords \ {"", "  "}) \cup OverlapWords}
        \cup {DefinitionKey(w, "noun", 0) : w \in OverlapWords}
        \cup UNION {UNION {{ItemDefKey(d, it), ItemExampleKey(d, it)} :
                               it \in ItemsOf(d)} : d \in DictData}
ServiceTexts == {"gato"}           \* translatedText values the service sends

\* translationCache[key] of a key that has no entry (undefined)
NoEntry == [text |-> "", timestamp |-> -1]

EmptyCache == [k \in AllKeys |-> NoEntry]

\* const key = cacheKey || text
CacheKeyOf(text, cacheKey) == IF cacheKey = "" THEN text ELSE cacheKey

\* The validity test with an entry of exactly 24 hours still valid
CacheValidInclusive(cached, t) ==
    cached # NoEntry /\ t - cached.timestamp <= CACHE_TTL

\* The validity test that never finds an entry valid
CacheValidNever(cached, t) == FALSE

\* cached && Date.now() - cached.timestamp < 24 * 60 * 60 * 1000
CacheValid(cached, t) ==
    cached # NoEntry /\ t - cached.timestamp < CACHE_TTL

\* The language test left out
IsSourceLanguageNever(lang) == FALSE

\* if (language === 'en') return text
IsSourceLanguage(lang) == lang = "en"

\* newCache = {...translationCache, [key]: {text, timestamp: Date.now()}}
NewCache(cache, key, translatedText, t) ==
    [cache EXCEPT ![key] = [text |-> translatedText, timestamp |-> t]]

(***************************************************************************)
(* translateText calls.  A call record keeps the closure of the call (lang,*)
(* cache), its position and result, and what it did: the number of         *)
(* requests it issued, the entry it read and when, the outcome of each     *)
(* request.                                                                *)
(***************************************************************************)
NewCall(text, cacheKey, batch) ==
    [ text     |-> text,
      key      |-> CacheKeyOf(text, cacheKey),
      lang     |-> language,
      cache    |-> translationCache,
      batch    |-> batch,
      pc       |-> "held",
      result   |-> "",
      reqs     |-> 0,
      consulted |-> FALSE,
      readAt   |-> -1,
      read     |-> NoEntry,
      hit      |-> FALSE,
      probe    |-> "none",
      status   |-> "none",
      body     |-> "none",
      stored   |-> NoEntry,
      persisted |-> FALSE ]

CallIds == 1..Len(calls)

\* The item 'translationCache' an earlier session may have left
SavedCaches ==
    {EmptyCache,
     [EmptyCache EXCEPT !["cat"] = [text |-> "gato", timestamp |-> 0]]}

\* The state once loadPersistedData has run on mount: the saved language
\* ('en' when none is saved) and the saved translations.
TrInit ==
    /\ language \in Languages
    /\ storedCache \in SavedCaches
    /\ translationCache = storedCache
    /\ now = 0
    /\ calls = <<>>

\* The (text, cacheKey) pairs a caller passes to translateText
Requests == Texts \X CacheKeysIn

Batches(n) == UNION {[1..m -> Requests] : m \in 1..n}

\* A handler of the current render starts: the translateText calls it will
\* make all read the language and the translationCache of this render.
StartHandler(rs, max) ==
    /\ Len(calls) + Len(rs) <= max
    /\ calls' = calls \o [i \in 1..Len(rs) |->
                            NewCall(rs[i][1], rs[i][2], Len(calls) + 1)]
    /\ UNCHANGED <<language, translationCache, storedCache, now>>
    /\ UNCHANGED <<relVars, aggVars, appVars>>

\* translateText up to its first await: the language test, the cache
\* lookup, and on a miss the first fetch.
EnterCall(c, t) ==
    IF IsSourceLanguage(c.lang)
    THEN [c EXCEPT !.pc = "done", !.result = c.text]
    ELSE LET cached == c.cache[c.key] IN
         IF CacheValid(cached, t)
         THEN [c EXCEPT !.pc = "done", !.result = cached.text,
                        !.consulted = TRUE, !.readAt = t, !.read = cached,
                        !.hit = TRUE]
         ELSE [c EXCEPT !.pc = "probe", !.reqs = c.reqs + 1,
                        !.consulted = TRUE, !.readAt = t, !.read = cached]

TranslateEnter(i) ==
    /\ calls[i].pc = "held"
    /\ calls' = [calls EXCEPT ![i] = EnterCall(calls[i], now)]
    /\ UNCHANGED <<language, translationCache, storedCache, now>>
    /\ UNCHANGED <<relVars, aggVars, appVars>>

ProbeOutcomes == {"neterr", "notok", "ok"}

\* The second fetch issued whatever the first one gave
AfterProbeUnchecked(c, o) ==
    [c EXCEPT !.pc = "fetch", !.probe = o, !.reqs = c.reqs + 1]

\* The answer to fetch('https://api.mymemory.translated.net/get'): a
\* rejection or a response that is not ok ends the call with the original
\* text; a response that is ok issues the request that carries the text.
AfterProbe(c, o) ==
    IF o = "ok"
    THEN [c EXCEPT !.pc = "fetch", !.probe = o, !.reqs = c.reqs + 1]
    ELSE [c EXCEPT !.pc = "done", !.probe = o, !.result = c.text]

ProbeResponse(i, o) ==
    /\ calls[i].pc = "probe"
    /\ calls' = [calls EXCEPT ![i] = AfterProbe(calls[i], o)]
    /\ UNCHANGED <<language, translationCache, storedCache, now>>
    /\ UNCHANGED <<relVars, aggVars, appVars>>

\* What the second fetch and translationResponse.json() can give: a
\* rejection of the fetch, or a response of either status whose body does
\* not parse, parses without responseData.translatedText, or carries one.
Bodies == {"malformed", "nodata"} \cup ServiceTexts

ResponseOutcomes ==
    {[status |-> "neterr", body |-> "none"]}
        \cup [status : {"ok", "notok"}, body : Bodies]

\* data.responseData && data.responseData.translatedText
HasTranslation(o) == o.status # "neterr" /\ o.body \in ServiceTexts

\* translateText from the answer to its second fetch to its return
StoreTranslation(i, o, quota) ==
    LET c == calls[i] IN
    /\ c.pc = "fetch"
    /\ IF HasTranslation(o)
       THEN LET newCache == NewCache(c.cache, c.key, o.body, now) IN
            /\ translationCache' = newCache
            /\ storedCache' = IF quota THEN storedCache ELSE newCache
            /\ calls' = [calls EXCEPT ![i] =
                   [c EXCEPT !.pc = "done", !.result = o.body,
                             !.status = o.status, !.body = o.body,
                             !.stored = newCache[c.key],
                             !.persisted = ~quota]]
       ELSE /\ quota = FALSE
            /\ calls' = [calls EXCEPT ![i] =
                   [c EXCEPT !.pc = "done", !.result = c.text,
                             !.status = o.status, !.body = o.body]]
            /\ UNCHANGED <<translationCache, storedCache>>

TranslationResponse(i, o, quota) ==
    /\ StoreTranslation(i, o, quota)
    /\ UNCHANGED <<language, now>>
    /\ UNCHANGED <<relVars, aggVars, appVars>>

\* Time passes.
Tick(t) ==
    /\ t > now
    /\ now' = t
    /\ UNCHANGED <<language, translationCache, storedCache, calls>>
    /\ UNCHANGED <<relVars, aggVars, appVars>>

RelIdle ==
    /\ relatedWords = <<>>
    /\ error = "null"
    /\ relCalls = <<>>

AggIdle ==
    /\ synonyms = <<>>
    /\ triggers = <<>>
    /\ adjectives = <<>>
    /\ aggregated = FALSE

\* The keys of the saved items
StorageKeys ==
    {"dictionaryFavorites", "dictionaryHistory", "dictionaryTheme",
     "dictionaryLanguage", "translationCache"}

\* The initial values of the five persisted states: [], [], 'light', 'en',
\* {}
Defaults ==
    [favorites |-> "empty", history |-> "empty", theme |-> "light",
     language |-> "en", translationCache |-> "empty"]

\* Nothing saved, the component mounted and rendered
LoadIdle ==
    /\ storage = [k \in StorageKeys |-> "absent"]
    /\ boot = [pc |-> "rendered", state |-> Defaults]

\* setTranslation(null)
NoTranslation == [text |-> "", source |-> ""]

\* {}
EmptyMap == [k \in {} |-> ""]

\* localStorage.getItem(...) of an item that is not there
NoItem == [present |-> FALSE, items |-> <<>>]

\* No favorite, no toggle and no language change yet; the saved language is
\* the one loaded; the handlers are those of the listing in README.md
UiIdle ==
    /\ favorites = <<>>
    /\ storedFavorites = NoItem
    /\ toggles = <<>>
    /\ storedLanguage = language
    /\ version = "README.md"
    /\ changes = <<>>

\* No search made yet
SrIdle ==
    /\ word = ""
    /\ history = <<>>
    /\ storedHistory = NoItem
    /\ definitions = <<>>
    /\ translation = NoTranslation
    /\ loading = FALSE
    /\ audioPlaying = FALSE
    /\ audioLang = "none"
    /\ definitionTranslations = EmptyMap
    /\ exampleTranslations = EmptyMap
    /\ searches = <<>>

AppIdle == SrIdle /\ LoadIdle /\ UiIdle

Init == TrInit /\ RelIdle /\ AggIdle /\ AppIdle

Next ==
    \/ \E rs \in Batches(MaxCalls) : StartHandler(rs, MaxCalls)
    \/ \E i \in CallIds : TranslateEnter(i)
    \/ \E i \in CallIds, o \in ProbeOutcomes : ProbeResponse(i, o)
    \/ \E i \in CallIds, o \in ResponseOutcomes, quota \in BOOLEAN :
           TranslationResponse(i, o, quota)
    \/ \E t \in Instants : Tick(t)

Spec == Init /\ [][Next]_vars

(***************************************************************************)
(* SpecExpiry: translateText calls made one at a time against a service    *)
(* that answers every request with a translation, while time passes.       *)
(***************************************************************************)
ServiceUp == {o \in ResponseOutcomes : o.status = "ok" /\ HasTranslation(o)}

NextExpiry ==
    \/ \E rs \in Batches(1) : StartHandler(rs, MaxLookups)
    \/ \E i \in CallIds : TranslateEnter(i)
    \/ \E i \in CallIds : ProbeResponse(i, "ok")
    \/ \E i \in CallIds, o \in ServiceUp : TranslationResponse(i, o, FALSE)
    \/ \E t \in ExpiryInstants : Tick(t)

SpecExpiry == Init /\ [][NextExpiry]_vars

(***************************************************************************)
(* fetchRelatedWords: the merge of the three result lists.  A RelatedWord  *)
(* is [word, score]; word texts are numbered.                              *)
(***************************************************************************)
\* .slice(0, 30)
MAX_RELATED == 30

Min(a, b) == IF a <= b THEN a ELSE b

\* a.findIndex(t => t.word === w), 1-based; 0 when there is none
FindIndex(a, w) ==
    IF \E i \in 1..Len(a) : a[i].word = w
    THEN CHOOSE i \in 1..Len(a) :
             a[i].word = w /\ \A j \in 1..(i - 1) : a[j].word # w
    ELSE 0

\* a.findIndex searched from the end
FindLastIndex(a, w) ==
    IF \E i \in 1..Len(a) : a[i].word = w
    THEN CHOOSE i \in 1..Len(a) :
             a[i].word = w /\ \A j \in (i + 1)..Len(a) : a[j].word # w
    ELSE 0

RECURSIVE KeepFrom(_, _, _)
\* The items a[i..] whose index is in keep, in order
KeepFrom(a, keep, i) ==
    IF i > Len(a) THEN <<>>
    ELSE IF i \in keep THEN <<a[i]>> \o KeepFrom(a, keep, i + 1)
    ELSE KeepFrom(a, keep, i + 1)

\* The filter keeping the last item of each word
DedupeKeepLast(a) ==
    KeepFrom(a, {i \in 1..Len(a) : FindLastIndex(a, a[i].word) = i}, 1)

\* No filter
DedupeNone(a) == a

\* .filter((v, i, a) => a.findIndex(t => t.word === v.word) === i)
Dedupe(a) ==
    KeepFrom(a, {i \in 1..Len(a) : FindIndex(a, a[i].word) = i}, 1)

RECURSIVE InsertDesc(_, _)
\* x put into the sorted list s after every item that does not compare
\* greater: (a, b) => b.score - a.score, the sort being stable
InsertDesc(x, s) ==
    IF s = <<>> THEN <<x>>
    ELSE IF Head(s).score - x.score >= 0
         THEN <<Head(s)>> \o InsertDesc(x, Tail(s))
         ELSE <<x>> \o s

RECURSIVE SortFrom(_, _, _)
SortFrom(a, i, acc) ==
    IF i > Len(a) THEN acc ELSE SortFrom(a, i + 1, InsertDesc(a[i], acc))

\* No sort
SortUnsorted(a) == a

\* .sort((a, b) => b.score - a.score)
SortByScoreDesc(a) == SortFrom(a, 1, <<>>)

\* No slice
SliceAll(a, n) == a

\* .slice(0, n)
Slice(a, n) == SubSeq(a, 1, Min(Len(a), n))

\* [...synonyms, ...triggers, ...adjectives]
Concat(syn, trg, adj) == syn \o trg \o adj

\* const combined = [...].filter(...).sort(...).slice(0, 30)
Combined(syn, trg, adj) ==
    Slice(SortByScoreDesc(Dedupe(Concat(syn, trg, adj))), MAX_RELATED)

(***************************************************************************)
(* SpecAggregate: the merge applied to three parsed result lists.  The     *)
(* lists are either short (every choice of at most MaxTotal items over a   *)
(* few words and scores) or long (runs of consecutive words that overlap   *)
(* between the lists, long enough for the merge to pass 30 items).         *)
(***************************************************************************)
AggWords  == {1, 2, 3}
AggScores == {1, 2}
AggItems  == [word : AggWords, score : AggScores]

ShortSeqs == UNION {[1..n -> AggItems] : n \in 0..MaxTotal}

ShortInputs ==
    UNION { { <<SubSeq(a, 1, i), SubSeq(a, i + 1, j), SubSeq(a, j + 1, Len(a))>> :
                  j \in i..Len(a) } : <<a, i>> \in
            UNION { {<<b, k>> : k \in 0..Len(b)} : b \in ShortSeqs } }

LongStarts   == {1, MAX_RELATED \div 2}
LongLengths  == {0, MAX_RELATED \div 2 + 1, MAX_RELATED + 1}
LongPatterns == {"rising", "falling", "flat"}

PatternScore(pattern, i) ==
    CASE pattern = "rising"  -> i
      [] pattern = "falling" -> 2 * MAX_RELATED - i
      [] OTHER               -> MAX_RELATED

\* len consecutive words from start, scored by pattern
Run(start, len, pattern) ==
    [i \in 1..len |-> [word |-> start + i - 1, score |-> PatternScore(pattern, i)]]

LongLists ==
    {Run(st, len, pt) : st \in LongStarts, len \in LongLengths, pt \in LongPatterns}

LongInputs == LongLists \X LongLists \X LongLists

AggInit ==
    /\ \E in \in ShortInputs \cup LongInputs :
           /\ synonyms = in[1]
           /\ triggers = in[2]
           /\ adjectives = in[3]
    /\ aggregated = FALSE
    /\ relatedWords = <<>>
    /\ error = "null"
    /\ relCalls = <<>>

TrIdle ==
    /\ language = "en"
    /\ translationCache = EmptyCache
    /\ storedCache = EmptyCache
    /\ now = 0
    /\ calls = <<>>

\* The three requests have been answered with lists: the merge is shown.
Aggregate ==
    /\ ~aggregated
    /\ relatedWords' = Combined(synonyms, triggers, adjectives)
    /\ aggregated' = TRUE
    /\ UNCHANGED <<synonyms, triggers, adjectives, error, relCalls>>
    /\ UNCHANGED <<trVars, appVars>>

InitAggregate == AggInit /\ TrIdle /\ AppIdle

NextAggregate == Aggregate

SpecAggregate == InitAggregate /\ [][NextAggregate]_vars

(***************************************************************************)
(* SpecRelated: fetchRelatedWords calls with their three requests.  Each   *)
(* request settles on its own: the fetch or res.json() rejects, or the     *)
(* body parses to a value that cannot be spread (not a list), or to a      *)
(* list.  Promise.all rejects with the first rejection and is fulfilled    *)
(* once all three are.                                                     *)
(***************************************************************************)
RelLists == { <<[word |-> 1, score |-> 1], [word |-> 2, score |-> 2]>> }

PendingResp == [st |-> "pending", data |-> <<>>]

RelOutcomes ==
    {[st |-> "reject", data |-> <<>>], [st |-> "notiterable", data |-> <<>>]}
        \cup {[st |-> "ok", data |-> l] : l \in RelLists}

\* Where the call stands given its three requests: in the catch block after
\* a rejection or a value that cannot be spread, waiting, or done
RelPc(resp) ==
    IF \E i \in 1..3 : resp[i].st = "reject" THEN "failed"
    ELSE IF \E i \in 1..3 : resp[i].st = "pending" THEN "waiting"
    ELSE IF \E i \in 1..3 : resp[i].st = "notiterable" THEN "failed"
    ELSE "done"

\* The lists that did arrive merged once all three requests have settled
RelShownPartial(rw, resp) ==
    IF \A i \in 1..3 : resp[i].st # "pending"
    THEN Combined(resp[1].data, resp[2].data, resp[3].data)
    ELSE rw

\* The list cleared in the catch block
RelShownCleared(rw, resp) ==
    CASE RelPc(resp) = "done" ->
             Combined(resp[1].data, resp[2].data, resp[3].data)
      [] RelPc(resp) = "failed" -> <<>>
      [] OTHER -> rw

\* The list on display once the call has moved on: setRelatedWords(combined)
\* when all three lists are there, nothing in the catch block
RelShown(rw, resp) ==
    IF RelPc(resp) = "done"
    THEN Combined(resp[1].data, resp[2].data, resp[3].data)
    ELSE rw

RelCallIds == 1..Len(relCalls)

\* fetchRelatedWords(word): the three requests are issued
FetchRelatedWords ==
    /\ Len(relCalls) < MaxRelCalls
    /\ relCalls' = Append(relCalls,
           [pc |-> "waiting", resp |-> [i \in 1..3 |-> PendingResp],
            before |-> relatedWords])
    /\ UNCHANGED <<relatedWords, error>>
    /\ UNCHANGED <<trVars, aggVars, appVars>>

\* Request i of call c settles with o; a call that is still waiting moves on
\* as Promise.all does, a call already in its catch block ignores it.
RelSettle(c, i, o) ==
    LET call == relCalls[c]
        resp == [call.resp EXCEPT ![i] = o] IN
    /\ call.resp[i].st = "pending"
    /\ IF call.pc = "waiting"
       THEN /\ relCalls' = [relCalls EXCEPT ![c] =
                   [call EXCEPT !.resp = resp, !.pc = RelPc(resp)]]
            /\ relatedWords' = RelShown(relatedWords, resp)
       ELSE /\ relCalls' = [relCalls EXCEPT ![c] = [call EXCEPT !.resp = resp]]
            /\ UNCHANGED relatedWords
    /\ UNCHANGED error
    /\ UNCHANGED <<trVars, aggVars, appVars>>

InitRelated == RelIdle /\ TrIdle /\ AggIdle /\ AppIdle

NextRelated ==
    \/ FetchRelatedWords
    \/ \E c \in RelCallIds, i \in 1..3, o \in RelOutcomes : RelSettle(c, i, o)

SpecRelated == InitRelated /\ [][NextRelated]_vars

(***************************************************************************)
(* handleSearch.  Every button that starts a search belongs to the current *)
(* render, so handleSearch and the addToHistory it calls read the current  *)
(* state.  The synchronous part of a search runs as one step: setWord,     *)
(* addToHistory, then fetchDefinitions, fetchRelatedWords and              *)
(* fetchTranslation each up to its first await.  A search record keeps the *)
(* closure of the search (lang, cache), the effects of the synchronous     *)
(* part in the order of the code (sync) and where its three calls stand.   *)
(***************************************************************************)
\* .slice(0, 15)
MAX_HISTORY == 15

\* texts[language].wordNotFound
WordNotFound(lang) ==
    IF lang = "en" THEN "Word not found" ELSE "Palavra não encontrada"

\* A failed playback reported with the text of a failed lookup
AudioUnavailableAsLookup(lang) == "Failed to fetch data"

\* texts[language].audioUnavailable
AudioUnavailable(lang) ==
    IF lang = "en" THEN "Audio playback unavailable"
    ELSE "Reprodução de áudio indisponível"

\* The test of an empty word only
IsBlankUntrimmed(w) == w = ""

\* !searchWord.trim()
IsBlank(w) == Trim(w) = ""

\* The history without cap
NewHistoryUncapped(h, w) ==
    <<ToLowerCase(w)>>
        \o SelectSeq(h, LAMBDA x : ToLowerCase(x) # ToLowerCase(w))

\* The history with the earlier occurrence kept unless spelled the same
NewHistoryCaseSensitive(h, w) ==
    Slice(<<ToLowerCase(w)>> \o SelectSeq(h, LAMBDA x : x # w), MAX_HISTORY)

\* [word.toLowerCase(),
\*  ...history.filter(w => w.toLowerCase() !== word.toLowerCase())].slice(0, 15)
NewHistory(h, w) ==
    Slice(<<ToLowerCase(w)>>
              \o SelectSeq(h, LAMBDA x : ToLowerCase(x) # ToLowerCase(w)),
          MAX_HISTORY)

\* localStorage.setItem('dictionaryHistory', JSON.stringify(newHistory)),
\* which may throw (the error is logged)
StoreHistory(stored, newHistory, throws) ==
    IF throws THEN stored ELSE [present |-> TRUE, items |-> newHistory]

\* The three requests of fetchRelatedWords
RelRequests == <<"fetch:rel_syn", "fetch:rel_trg", "fetch:rel_jjb">>

\* The effects with the history update after the three calls
SyncEffectsRequestsFirst(lang, c, throws) ==
    <<"setWord", "setLoading", "setError", "fetch:dictionary">>
        \o RelRequests
        \o (IF IsSourceLanguage(lang) THEN <<"setTranslation">>
            ELSE IF c.reqs > 0 THEN <<"fetch:translate">> ELSE <<>>)
        \o <<"setHistory", IF throws THEN "setItem:throws" ELSE "setItem">>

\* The effects of the synchronous part of a search, in the order of the
\* code; c is the translateText call of fetchTranslation
SyncEffects(lang, c, throws) ==
    <<"setWord", "setHistory",
      IF throws THEN "setItem:throws" ELSE "setItem">>
        \o <<"setLoading", "setError", "fetch:dictionary">>
        \o RelRequests
        \o (IF IsSourceLanguage(lang) THEN <<"setTranslation">>
            ELSE IF c.reqs > 0 THEN <<"fetch:translate">> ELSE <<>>)

\* setTranslation({text: translated, source: 'Português'})
Translated(text) == [text |-> text, source |-> "Português"]

\* The record of a handleSearch call that returned at once
BlankSearch(w) ==
    [ word |-> w, blank |-> TRUE, lang |-> language,
      cache |-> translationCache, before |-> history, sync |-> <<>>,
      dict |-> "none", outcome |-> "none", data |-> <<>>, rel |-> 0, tr |-> 0,
      defCalls |-> EmptyMap, exCalls |-> EmptyMap ]

\* The record of a handleSearch call after its synchronous part
StartedSearch(w, c, throws) ==
    [ word |-> w, blank |-> FALSE, lang |-> language,
      cache |-> translationCache, before |-> history,
      sync |-> SyncEffects(language, c, throws),
      dict |-> "waiting", outcome |-> "none", data |-> <<>>,
      rel |-> Len(relCalls) + 1,
      tr |-> IF IsSourceLanguage(language) THEN 0 ELSE Len(calls) + 1,
      defCalls |-> EmptyMap, exCalls |-> EmptyMap ]

SearchIds == 1..Len(searches)

\* handleSearch(w); throws: the setItem of addToHistory throws
HandleSearch(w, throws, max) ==
    /\ Len(searches) < max
    /\ IF IsBlank(w)
       THEN /\ ~throws
            /\ searches' = Append(searches, BlankSearch(w))
            /\ UNCHANGED <<word, history, storedHistory, translation, loading,
                           error, relCalls, calls>>
       ELSE LET c == EnterCall(NewCall(w, MainWordKey(w), Len(calls) + 1), now) IN
            /\ word' = w
            /\ history' = NewHistory(history, w)
            /\ storedHistory' = StoreHistory(storedHistory, NewHistory(history, w), throws)
            /\ loading' = TRUE
            /\ error' = "null"
            /\ relCalls' = Append(relCalls,
                   [pc |-> "waiting", resp |-> [i \in 1..3 |-> PendingResp],
                    before |-> relatedWords])
            /\ IF IsSourceLanguage(language)
               THEN /\ translation' = NoTranslation
                    /\ UNCHANGED calls
               ELSE /\ calls' = Append(calls, c)
                    /\ translation' = IF c.pc = "done" THEN Translated(c.result)
                                      ELSE translation
            /\ searches' = Append(searches, StartedSearch(w, c, throws))
    /\ UNCHANGED <<language, translationCache, storedCache, now>>
    /\ UNCHANGED <<relatedWords, definitions, audioPlaying, audioLang,
                   definitionTranslations, exampleTranslations>>
    /\ UNCHANGED <<aggVars, ldVars, uiVars, changes>>

\* The clear button of the history panel, shown when the history is not
\* empty; throws: removeItem throws
ClearHistory(throws) ==
    /\ history # <<>>
    /\ history' = <<>>
    /\ storedHistory' = IF throws THEN storedHistory ELSE NoItem
    /\ UNCHANGED <<word, definitions, translation, loading, audioPlaying,
                   audioLang, definitionTranslations, exampleTranslations,
                   searches>>
    /\ UNCHANGED <<trVars, relVars, aggVars, ldVars, uiVars, changes>>

(***************************************************************************)
(* toggleFavorite, from the star shown with the first entry of the         *)
(* displayed definitions and from the remove button of each saved word,    *)
(* and the clear button of the favorites panel.  A record of `toggles`     *)
(* keeps what the call found and whether its write threw.                  *)
(***************************************************************************)
Range(s) == {s[i] : i \in DOMAIN s}

\* The toggle that only ever adds
NewFavoritesAddOnly(favs, w) == Append(favs, w)

\* favorites.includes(word) ? favorites.filter(w => w !== word)
\*                          : [...favorites, word]
NewFavorites(favs, w) ==
    IF w \in Range(favs) THEN SelectSeq(favs, LAMBDA x : x # w)
    ELSE Append(favs, w)

\* The words whose toggle the interface offers: the saved words and the
\* word of the first displayed entry
Toggleable ==
    Range(favorites)
        \cup (IF error = "null" /\ definitions # <<>>
              THEN {definitions[1].word} ELSE {})

\* toggleFavorite(w); throws: the setItem throws, after setFavorites
ToggleFavorite(w, throws, max) ==
    /\ Len(toggles) < max
    /\ w \in Toggleable
    /\ favorites' = NewFavorites(favorites, w)
    /\ storedFavorites' =
           IF throws THEN storedFavorites
           ELSE [present |-> TRUE, items |-> NewFavorites(favorites, w)]
    /\ toggles' = Append(toggles,
           [op |-> "toggle", word |-> w, before |-> favorites,
            stored |-> storedFavorites, threw |-> throws])
    /\ UNCHANGED <<storedLanguage, version, changes>>
    /\ UNCHANGED <<trVars, relVars, aggVars, srVars, ldVars>>

\* The clear button, shown when there are favorites; throws: removeItem
\* throws
ClearFavorites(throws, max) ==
    /\ Len(toggles) < max
    /\ favorites # <<>>
    /\ favorites' = <<>>
    /\ storedFavorites' = IF throws THEN storedFavorites ELSE NoItem
    /\ toggles' = Append(toggles,
           [op |-> "clear", word |-> "", before |-> favorites,
            stored |-> storedFavorites, threw |-> throws])
    /\ UNCHANGED <<storedLanguage, version, changes>>
    /\ UNCHANGED <<trVars, relVars, aggVars, srVars, ldVars>>


(***************************************************************************)
(* SpecHistory: searches and clearings of the history, from the history an *)
(* earlier session saved, while no request is answered.                    *)
(***************************************************************************)
\* n words no search of the model spells except W3
OlderWords(n) == [i \in 1..n |-> "w" \o ToString(i)]

\* The item 'dictionaryHistory' an earlier session may have left
SavedHistories ==
    {NoItem} \cup {[present |-> TRUE, items |-> OlderWords(n)] :
                      n \in {MAX_HISTORY - 1, MAX_HISTORY}}

\* if (savedHistory) setHistory(JSON.parse(savedHistory))
LoadedHistory(saved) == IF saved.present THEN saved.items ELSE <<>>

InitHistory ==
    /\ language \in Languages
    /\ translationCache = EmptyCache
    /\ storedCache = EmptyCache
    /\ now = 0
    /\ calls = <<>>
    /\ RelIdle
    /\ AggIdle
    /\ storedHistory \in SavedHistories
    /\ history = LoadedHistory(storedHistory)
    /\ word = ""
    /\ definitions = <<>>
    /\ translation = NoTranslation
    /\ loading = FALSE
    /\ audioPlaying = FALSE
    /\ audioLang = "none"
    /\ definitionTranslations = EmptyMap
    /\ exampleTranslations = EmptyMap
    /\ searches = <<>>
    /\ LoadIdle
    /\ UiIdle

NextHistory ==
    \/ \E w \in HistoryWords, throws \in BOOLEAN :
           HandleSearch(w, throws, MaxSearches)
    \/ \E throws \in BOOLEAN : ClearHistory(throws)

SpecHistory == InitHistory /\ [][NextHistory]_vars

(***************************************************************************)
(* translateDefinitionsAndExamples: the two maps of texts to translate.    *)
(* Assigning to a key that is already in the map overwrites its text and   *)
(* keeps its place.                                                        *)
(***************************************************************************)
\* The place of a definition in the order of the three nested forEach
ItemRank(it) == 100 * it.e + 10 * it.m + it.i

\* The definitions of a body in the order forEach visits them
ItemSeq(data) ==
    LET items == ItemsOf(data) IN
    CHOOSE q \in [1..Cardinality(items) -> items] :
        \A a, b \in 1..Cardinality(items) :
            a < b => ItemRank(q[a]) < ItemRank(q[b])

\* if (definition.example)
HasExample(data, it) == ItemDefinition(data, it).example # ""

\* The last position of key k in the sequence of keys ks
LastPosition(ks, k) ==
    CHOOSE p \in DOMAIN ks : ks[p] = k /\ \A j \in DOMAIN ks : ks[j] = k => j <= p

\* The keys of ks in the order of their first assignment
KeysInOrder(ks) ==
    KeepFrom(ks, {p \in DOMAIN ks : \A j \in 1..(p - 1) : ks[j] # ks[p]}, 1)

\* definitionsToTranslate[defKey] = definition.definition
DefinitionsToTranslate(data) ==
    LET q  == ItemSeq(data)
        ks == [p \in DOMAIN q |-> ItemDefKey(data, q[p])] IN
    [k \in {ks[p] : p \in DOMAIN ks} |->
        ItemDefinition(data, q[LastPosition(ks, k)]).definition]

\* examplesToTranslate[exampleKey] = definition.example
ExamplesToTranslate(data) ==
    LET q  == SelectSeq(ItemSeq(data), LAMBDA it : HasExample(data, it))
        ks == [p \in DOMAIN q |-> ItemExampleKey(data, q[p])] IN
    [k \in {ks[p] : p \in DOMAIN ks} |->
        ItemDefinition(data, q[LastPosition(ks, k)]).example]

\* Object.entries(definitionsToTranslate): the keys in insertion order
DefinitionKeys(data) ==
    LET q == ItemSeq(data) IN
    KeysInOrder([p \in DOMAIN q |-> ItemDefKey(data, q[p])])

\* Object.entries(examplesToTranslate): the keys in insertion order
ExampleKeys(data) ==
    LET q == SelectSeq(ItemSeq(data), LAMBDA it : HasExample(data, it)) IN
    KeysInOrder([p \in DOMAIN q |-> ItemExampleKey(data, q[p])])

\* The translateText calls of translateDefinitionsAndExamples(data) in the
\* closure (lang, cache) of the handler, each up to its first await: one
\* for each entry of definitionsToTranslate, then one for each entry of
\* examplesToTranslate.  first is the number of the first call.
BulkCalls(data, lang, cache, first) ==
    LET dk == DefinitionKeys(data)
        ek == ExampleKeys(data)
        call(text, key) ==
            EnterCall([NewCall(text, key, first) EXCEPT !.lang = lang,
                                                      !.cache = cache], now) IN
    [j \in 1..Len(dk) |-> call(DefinitionsToTranslate(data)[dk[j]], dk[j])]
        \o [j \in 1..Len(ek) |-> call(ExamplesToTranslate(data)[ek[j]], ek[j])]

\* The number of the call made for each key of definitionsToTranslate
DefCallsOf(data, first) ==
    LET dk == DefinitionKeys(data) IN
    [k \in {dk[j] : j \in DOMAIN dk} |->
        first - 1 + CHOOSE j \in DOMAIN dk : dk[j] = k]

\* The number of the call made for each key of examplesToTranslate
ExCallsOf(data, first) ==
    LET dk == DefinitionKeys(data)
        ek == ExampleKeys(data) IN
    [k \in {ek[j] : j \in DOMAIN ek} |->
        first - 1 + Len(dk) + CHOOSE j \in DOMAIN ek : ek[j] = k]

\* The maps with every text left as it was once one call has failed
ResultsUnlessFailed(callOf, cs) ==
    [k \in DOMAIN callOf |->
        IF \E j \in DOMAIN callOf : cs[callOf[j]].result = cs[callOf[j]].text
        THEN cs[callOf[k]].text ELSE cs[callOf[k]].result]

\* newDefTranslations / newExampleTranslations: the result of each call
\* under its key
ResultsOf(callOf, cs) == [k \in DOMAIN callOf |-> cs[callOf[k]].result]

(***************************************************************************)
(* ExamplesPanel: one card for each definition of the first entry that has *)
(* an example.  The index in the keys of a card is the one map gives it    *)
(* after the filter.                                                       *)
(***************************************************************************)
\* The definitions of the first entry that pass .filter(def => def.example)
PanelCards(data) ==
    {it \in ItemsOf(data) : it.e = 1 /\ HasExample(data, it)}

\* The index .map((def, i) => ...) gives the card after the filter: the
\* number of definitions with an example before it in its meaning
PanelIndex(data, it) ==
    Cardinality({other \in PanelCards(data) :
                     other.m = it.m /\ other.i < it.i})

\* `${definitions[0].word}-${meaning.partOfSpeech}-${i}`
PanelDefKey(data, it) ==
    DefinitionKey(data[1].word, data[1].meanings[it.m].partOfSpeech,
                  PanelIndex(data, it))

\* `${definitions[0].word}-${meaning.partOfSpeech}-${i}-example`
PanelExampleKey(data, it) ==
    ExampleKey(data[1].word, data[1].meanings[it.m].partOfSpeech,
               PanelIndex(data, it))

(***************************************************************************)
(* The answers to the requests of a search.  A continuation that follows   *)
(* an await on a promise that is already settled runs before any other     *)
(* answer is handled, so it is part of the step that settled the promise.  *)
(***************************************************************************)
\* What the dictionary request can give: a rejected fetch, a response with
\* status 404 or another status that is not a success, a success whose body
\* does not parse, a success with a list of entries
DictFailures == {"neterr", "status404", "status500", "badjson"}

DictOutcomes(bodies) ==
    {[kind |-> k, data |-> <<>>] : k \in DictFailures}
        \cup {[kind |-> "ok", data |-> d] : d \in bodies}

\* The message with a rejected fetch passed over in silence
LookupMessageSilent(kind, lang) ==
    CASE kind = "status404" -> WordNotFound(lang)
      [] kind = "status500" -> "Failed to fetch data"
      [] kind = "neterr"    -> "null"
      [] OTHER              -> "Unexpected end of JSON input"

\* The message with the status not looked at
LookupMessageAnyStatus(kind, lang) ==
    CASE kind \in {"status404", "status500"} -> "Failed to fetch data"
      [] kind = "neterr" -> "Failed to fetch"
      [] OTHER           -> "Unexpected end of JSON input"

\* The message of the Error that reaches the catch block of
\* fetchDefinitions: the one thrown for a response that is not ok, or the
\* browser's for a rejected fetch or a body that does not parse
LookupMessage(kind, lang) ==
    CASE kind = "status404" -> WordNotFound(lang)
      [] kind = "status500" -> "Failed to fetch data"
      [] kind = "neterr"    -> "Failed to fetch"
      [] OTHER              -> "Unexpected end of JSON input"

\* The calls translateDefinitionsAndExamples made for the search
BulkIds(sr) ==
    {sr.defCalls[k] : k \in DOMAIN sr.defCalls}
        \cup {sr.exCalls[k] : k \in DOMAIN sr.exCalls}

\* The answer o to the dictionary request of search s
DictionaryResponse(s, o) ==
    LET sr    == searches[s]
        first == Len(calls) + 1
        bulk  == IF o.kind = "ok" /\ ~IsSourceLanguage(sr.lang)
                 THEN BulkCalls(o.data, sr.lang, sr.cache, first)
                 ELSE <<>>
        defCalls == DefCallsOf(o.data, first)
        exCalls  == ExCallsOf(o.data, first) IN
    /\ sr.dict = "waiting"
    /\ IF o.kind # "ok"
       THEN /\ error' = LookupMessage(o.kind, sr.lang)
            /\ definitions' = <<>>
            /\ loading' = FALSE
            /\ searches' = [searches EXCEPT ![s] =
                   [sr EXCEPT !.dict = "failed", !.outcome = o.kind]]
            /\ UNCHANGED <<calls, definitionTranslations, exampleTranslations>>
       ELSE /\ definitions' = o.data
            /\ calls' = calls \o bulk
            /\ UNCHANGED error
            /\ IF IsSourceLanguage(sr.lang)
               THEN /\ loading' = FALSE
                    /\ searches' = [searches EXCEPT ![s] =
                           [sr EXCEPT !.dict = "done", !.outcome = o.kind,
                                      !.data = o.data]]
                    /\ UNCHANGED <<definitionTranslations, exampleTranslations>>
               ELSE IF \A j \in DOMAIN bulk : bulk[j].pc = "done"
               THEN /\ definitionTranslations' = ResultsOf(defCalls, calls')
                    /\ exampleTranslations' = ResultsOf(exCalls, calls')
                    /\ loading' = FALSE
                    /\ searches' = [searches EXCEPT ![s] =
                           [sr EXCEPT !.dict = "done", !.outcome = o.kind,
                                      !.data = o.data,
                                      !.defCalls = defCalls,
                                      !.exCalls = exCalls]]
               ELSE /\ searches' = [searches EXCEPT ![s] =
                           [sr EXCEPT !.dict = "translating",
                                      !.outcome = o.kind,
                                      !.data = o.data,
                                      !.defCalls = defCalls,
                                      !.exCalls = exCalls]]
                    /\ UNCHANGED <<loading, definitionTranslations,
                                   exampleTranslations>>
    /\ UNCHANGED <<word, history, storedHistory, translation, audioPlaying,
                   audioLang>>
    /\ UNCHANGED <<language, translationCache, storedCache, now>>
    /\ UNCHANGED <<relatedWords, relCalls>>
    /\ UNCHANGED <<aggVars, ldVars, uiVars, changes>>

\* What follows in the handlers once call i has moved: fetchTranslation
\* shows the result of its call; translateDefinitionsAndExamples, once all
\* its calls have returned, sets the two maps, and fetchDefinitions ends
\* with setLoading(false).  The calls are those of a search or of a
\* changeLanguage.
AfterCall(i) ==
    LET returned == calls'[i].pc = "done"
        ended == {s \in SearchIds :
                     /\ searches[s].dict = "translating"
                     /\ i \in BulkIds(searches[s])
                     /\ \A j \in BulkIds(searches[s]) : calls'[j].pc = "done"}
        endedChange == {c \in DOMAIN changes :
                     /\ changes[c].pc = "translating"
                     /\ i \in BulkIds(changes[c])
                     /\ \A j \in BulkIds(changes[c]) : calls'[j].pc = "done"} IN
    /\ translation' =
           IF /\ returned
              /\ \/ \E s \in SearchIds : searches[s].tr = i
                 \/ \E c \in DOMAIN changes : changes[c].tr = i
           THEN Translated(calls'[i].result) ELSE translation
    /\ IF ended # {}
       THEN LET s == CHOOSE s \in ended : TRUE IN
            /\ definitionTranslations' = ResultsOf(searches[s].defCalls, calls')
            /\ exampleTranslations' = ResultsOf(searches[s].exCalls, calls')
            /\ loading' = FALSE
            /\ searches' = [searches EXCEPT ![s].dict = "done"]
            /\ UNCHANGED changes
       ELSE IF endedChange # {}
       THEN LET c == CHOOSE c \in endedChange : TRUE IN
            /\ definitionTranslations' = ResultsOf(changes[c].defCalls, calls')
            /\ exampleTranslations' = ResultsOf(changes[c].exCalls, calls')
            /\ changes' = [changes EXCEPT ![c].pc = "done"]
            /\ UNCHANGED <<loading, searches>>
       ELSE UNCHANGED <<definitionTranslations, exampleTranslations, loading,
                        searches, changes>>
    /\ UNCHANGED <<word, history, storedHistory, definitions, audioPlaying,
                   audioLang>>
    /\ UNCHANGED <<relVars, aggVars, ldVars, uiVars>>

\* The answer to the first fetch of call i, within a search
SearchProbeResponse(i, o) ==
    /\ calls[i].pc = "probe"
    /\ calls' = [calls EXCEPT ![i] = AfterProbe(calls[i], o)]
    /\ UNCHANGED <<language, translationCache, storedCache, now>>
    /\ AfterCall(i)

\* The answer to the second fetch of call i, within a search
SearchTranslationResponse(i, o, quota) ==
    /\ StoreTranslation(i, o, quota)
    /\ UNCHANGED <<language, now>>
    /\ AfterCall(i)

\* The three requests of fetchRelatedWords call c settle with resp
RelatedSettled(c, resp) ==
    /\ relCalls[c].pc = "waiting"
    /\ relCalls' = [relCalls EXCEPT ![c] =
           [relCalls[c] EXCEPT !.resp = resp, !.pc = RelPc(resp)]]
    /\ relatedWords' = RelShown(relatedWords, resp)
    /\ UNCHANGED error
    /\ UNCHANGED <<trVars, aggVars, appVars>>

\* playAudio(url) from the button shown with the definitions, up to
\* audio.play()
PlayAudio ==
    /\ error = "null"
    /\ definitions # <<>>
    /\ ~audioPlaying
    /\ audioPlaying' = TRUE
    /\ audioLang' = language
    /\ UNCHANGED <<word, history, storedHistory, definitions, translation,
                   loading, definitionTranslations, exampleTranslations,
                   searches>>
    /\ UNCHANGED <<trVars, relVars, aggVars, ldVars, uiVars, changes>>

\* audio.play() settles: .catch(setError(t.audioUnavailable)), .finally
AudioSettled(ok) ==
    /\ audioLang # "none"
    /\ error' = IF ok THEN error ELSE AudioUnavailable(audioLang)
    /\ audioPlaying' = FALSE
    /\ audioLang' = "none"
    /\ UNCHANGED <<word, history, storedHistory, definitions, translation,
                   loading, definitionTranslations, exampleTranslations,
                   searches>>
    /\ UNCHANGED <<trVars, aggVars, ldVars, uiVars, changes, relatedWords, relCalls>>

\* await Promise.all([...]) of handleSearch has returned
Settled(s) ==
    /\ ~searches[s].blank
    /\ searches[s].dict \in {"done", "failed"}
    /\ relCalls[searches[s].rel].pc # "waiting"
    /\ searches[s].tr # 0 => calls[searches[s].tr].pc = "done"

\* The promise of fetchDefinitions without its catch block
DefinitionsPromiseUncaught(sr) ==
    IF sr.dict = "failed" THEN "rejected"
    ELSE IF sr.dict = "done" THEN "fulfilled" ELSE "pending"

\* The promise of fetchDefinitions(searchWord): every error is handled in
\* its catch block, so it is fulfilled after the finally block
DefinitionsPromise(sr) ==
    IF sr.dict \in {"done", "failed"} THEN "fulfilled" ELSE "pending"

\* The promise of fetchRelatedWords(searchWord), which catches what its
\* Promise.all and its merge throw
RelatedPromise(sr) ==
    IF relCalls[sr.rel].pc = "waiting" THEN "pending" ELSE "fulfilled"

\* The promise of fetchTranslation(searchWord), which returns at once in
\* English and else once translateText has returned
TranslationPromise(sr) ==
    IF sr.tr = 0 \/ calls[sr.tr].pc = "done" THEN "fulfilled" ELSE "pending"

\* Promise.all: rejected with the first rejection, fulfilled once every
\* promise is
PromiseAll(ps) ==
    IF \E i \in DOMAIN ps : ps[i] = "rejected" THEN "rejected"
    ELSE IF \A i \in DOMAIN ps : ps[i] = "fulfilled" THEN "fulfilled"
    ELSE "pending"

\* The promise handleSearch awaits for the started search s
SearchPromise(s) ==
    PromiseAll(<<DefinitionsPromise(searches[s]), RelatedPromise(searches[s]),
                 TranslationPromise(searches[s])>>)

\* The requests search s has sent to the dictionary, to the related-word
\* service and to the translation service: those of its synchronous part,
\* and those of the translateText call of its fetchTranslation.  No handler
\* sends a request again, and the Try Again button of the error display
\* starts a new search.
RequestsSent(s) ==
    LET sync == searches[s].sync
        count(x) == Cardinality({p \in DOMAIN sync : sync[p] = x}) IN
    [ dictionary  |-> count("fetch:dictionary"),
      related     |-> count("fetch:rel_syn") + count("fetch:rel_trg")
                          + count("fetch:rel_jjb"),
      translation |-> IF searches[s].tr = 0 THEN 0
                      ELSE calls[searches[s].tr].reqs ]

(***************************************************************************)
(* changeLanguage.  The handler belongs to the render that showed the      *)
(* button, and so do the fetchTranslation and the                          *)
(* translateDefinitionsAndExamples it calls: they read the language of     *)
(* that render, the one being left.  A record of `changes` keeps the       *)
(* closure of the call, the number of searches made before it, its effects *)
(* in the order of the code (sync) and the translateText calls it made.    *)
(***************************************************************************)
\* The effects of changeLanguage in the order of the code
LanguageEffects(throws, w, defs) ==
    <<"setLanguage", IF throws THEN "setItem:throws" ELSE "setItem",
      "setDefinitionTranslations", "setExampleTranslations">>
        \o (IF w = "" THEN <<>>
            ELSE <<"fetchTranslation">>
                     \o (IF defs # <<>>
                         THEN <<"translateDefinitionsAndExamples">>
                         ELSE <<>>))

\* changeLanguage(lang); throws: the setItem throws
ChangeLanguage(lang, throws, max) ==
    LET c == EnterCall(NewCall(word, MainWordKey(word), Len(calls) + 1), now)
        translates == word # "" /\ ~IsSourceLanguage(language)
        first == Len(calls) + 2
        inBulk == translates /\ definitions # <<>>
        bulk == IF inBulk
                THEN BulkCalls(definitions, language, translationCache, first)
                ELSE <<>>
        defCalls == IF inBulk THEN DefCallsOf(definitions, first) ELSE EmptyMap
        exCalls  == IF inBulk THEN ExCallsOf(definitions, first) ELSE EmptyMap
        allDone  == \A j \in DOMAIN bulk : bulk[j].pc = "done" IN
    /\ Len(changes) < max
    /\ language' = lang
    /\ storedLanguage' = IF throws THEN storedLanguage ELSE lang
    /\ calls' = IF translates THEN (calls \o <<c>>) \o bulk ELSE calls
    /\ translation' =
           IF word = "" THEN translation
           ELSE IF IsSourceLanguage(language) THEN NoTranslation
           ELSE IF c.pc = "done" THEN Translated(c.result)
           ELSE translation
    /\ definitionTranslations' =
           IF inBulk /\ allDone THEN ResultsOf(defCalls, calls') ELSE EmptyMap
    /\ exampleTranslations' =
           IF inBulk /\ allDone THEN ResultsOf(exCalls, calls') ELSE EmptyMap
    /\ changes' = Append(changes,
           [ from |-> language, to |-> lang, threw |-> throws, word |-> word,
             searched |-> Len(searches),
             sync |-> LanguageEffects(throws, word, definitions),
             tr |-> IF translates THEN Len(calls) + 1 ELSE 0,
             defCalls |-> defCalls, exCalls |-> exCalls,
             pc |-> IF inBulk /\ ~allDone THEN "translating" ELSE "done" ])
    /\ UNCHANGED <<translationCache, storedCache, now>>
    /\ UNCHANGED <<word, history, storedHistory, definitions, loading,
                   audioPlaying, audioLang, searches>>
    /\ UNCHANGED <<relVars, aggVars, ldVars, favVars, version>>

(***************************************************************************)
(* SpecSearch: searches with the answers to their requests.                *)
(***************************************************************************)
SearchWords == {"cat", "  "}

SearchBodies == {OneDefinition}

\* The item 'translationCache' an earlier session may have left
SearchSavedCaches ==
    {EmptyCache,
     [EmptyCache EXCEPT !["main-word-cat"] = [text |-> "gato", timestamp |-> 0]]}

SearchProbeOutcomes == {"neterr", "ok"}

SearchResponses ==
    {[status |-> "neterr", body |-> "none"], [status |-> "ok", body |-> "gato"]}

AllRejected == [i \in 1..3 |-> [st |-> "reject", data |-> <<>>]]

SearchRelResults ==
    {AllRejected} \cup {[i \in 1..3 |-> [st |-> "ok", data |-> l]] : l \in RelLists}

InitSearch ==
    /\ language \in Languages
    /\ storedCache \in SearchSavedCaches
    /\ translationCache = storedCache
    /\ now = 0
    /\ calls = <<>>
    /\ RelIdle
    /\ AggIdle
    /\ AppIdle

NextSearch ==
    \/ \E w \in SearchWords : HandleSearch(w, FALSE, MaxOverlap)
    \/ \E s \in SearchIds, o \in DictOutcomes(SearchBodies) :
           DictionaryResponse(s, o)
    \/ \E c \in RelCallIds, resp \in SearchRelResults : RelatedSettled(c, resp)
    \/ \E i \in CallIds, o \in SearchProbeOutcomes : SearchProbeResponse(i, o)
    \/ \E i \in CallIds, o \in SearchResponses :
           SearchTranslationResponse(i, o, FALSE)
    \/ PlayAudio
    \/ \E ok \in BOOLEAN : AudioSettled(ok)

SpecSearch == InitSearch /\ [][NextSearch]_vars

(***************************************************************************)
(* SpecSearchLive: searches whose every request is answered in the end:    *)
(* the dictionary, the related-word and the translation services settle    *)
(* each request they are sent, with a failure or with a result.            *)
(***************************************************************************)
LiveDictOutcomes ==
    {[kind |-> "neterr", data |-> <<>>], [kind |-> "ok", data |-> OneDefinition]}

LiveRelResults ==
    {AllRejected, [i \in 1..3 |-> [st |-> "ok", data |-> <<>>]]}

NextSearchLive ==
    \/ \E w \in SearchWords : HandleSearch(w, FALSE, MaxOverlap)
    \/ \E s \in SearchIds, o \in LiveDictOutcomes : DictionaryResponse(s, o)
    \/ \E c \in RelCallIds, resp \in LiveRelResults : RelatedSettled(c, resp)
    \/ \E i \in CallIds, o \in SearchProbeOutcomes : SearchProbeResponse(i, o)
    \/ \E i \in CallIds, o \in SearchResponses :
           SearchTranslationResponse(i, o, FALSE)

RequestsSettle ==
    /\ WF_vars(\E s \in SearchIds, o \in LiveDictOutcomes :
                   DictionaryResponse(s, o))
    /\ WF_vars(\E c \in RelCallIds, resp \in LiveRelResults :
                   RelatedSettled(c, resp))
    /\ WF_vars(\E i \in CallIds, o \in SearchProbeOutcomes :
                   SearchProbeResponse(i, o))
    /\ WF_vars(\E i \in CallIds, o \in SearchResponses :
                   SearchTranslationResponse(i, o, FALSE))

SpecSearchLive == InitSearch /\ [][NextSearchLive]_vars /\ RequestsSettle

(***************************************************************************)
(* SpecOverlap: two searches of different words, the second started while  *)
(* requests of the first are unanswered.  The search form is disabled      *)
(* while loading, the buttons of the history, of the favorites and of the  *)
(* related words are not; and loading is false again once the lookup has   *)
(* been answered, with the related words or the translation still awaited. *)
(* Each service answers a request for a word with the data of that word.   *)
(***************************************************************************)
\* The body the dictionary sends for word w
BodyOf(w) == <<Entry(w, <<Meaning("noun", <<Definition("d1", "")>>)>>)>>

\* The related words the service sends for word w
RelatedOf(w) ==
    IF w = "cat" THEN <<[word |-> 1, score |-> 1]>>
    ELSE <<[word |-> 2, score |-> 2]>>

\* The search that made fetchRelatedWords call c
SearchOfRel(c) == CHOOSE s \in SearchIds : searches[s].rel = c

InitOverlap ==
    /\ language \in Languages
    /\ storedCache = EmptyCache
    /\ translationCache = EmptyCache
    /\ now = 0
    /\ calls = <<>>
    /\ RelIdle
    /\ AggIdle
    /\ AppIdle

NextOverlap ==
    \/ \E w \in OverlapWords :
           /\ \A s \in SearchIds : searches[s].word # w
           /\ HandleSearch(w, FALSE, MaxRace)
    \/ \E s \in SearchIds :
           \/ DictionaryResponse(s, [kind |-> "status404", data |-> <<>>])
           \/ DictionaryResponse(s, [kind |-> "ok",
                                     data |-> BodyOf(searches[s].word)])
    \/ \E c \in RelCallIds :
           \/ RelatedSettled(c, AllRejected)
           \/ RelatedSettled(c, [i \in 1..3 |->
                  [st |-> "ok",
                   data |-> RelatedOf(searches[SearchOfRel(c)].word)]])
    \/ \E i \in CallIds, o \in SearchProbeOutcomes : SearchProbeResponse(i, o)
    \/ \E i \in CallIds, o \in SearchResponses :
           SearchTranslationResponse(i, o, FALSE)

SpecOverlap == InitOverlap /\ [][NextOverlap]_vars

(***************************************************************************)
(* SpecBulk: searches in Portuguese whose lookup succeeds, with the calls  *)
(* of translateDefinitionsAndExamples answered one by one.  The headword   *)
(* has its translation in the saved cache.                                 *)
(***************************************************************************)
BulkSavedCaches ==
    LET headword == [EmptyCache EXCEPT !["main-word-cat"] =
                         [text |-> "gato", timestamp |-> 0]] IN
    {headword,
     [headword EXCEPT !["cat-noun-0"] = [text |-> "gato", timestamp |-> 0]]}

\* A definition without example before one with an example
ExampleSecond ==
    <<Entry("cat", <<Meaning("noun", <<Definition("d1", ""),
                                       Definition("d2", "e2")>>)>>)>>

\* The bodies of the lookups: no entry; definitions with and without
\* example, in either order; two meanings of one part of speech; two
\* entries of one word
BulkBodies ==
    {<<>>, WithExample, ExampleSecond, SamePartOfSpeech, Homographs}

InitBulk ==
    /\ language = "pt-BR"
    /\ storedCache \in BulkSavedCaches
    /\ translationCache = storedCache
    /\ now = 0
    /\ calls = <<>>
    /\ RelIdle
    /\ AggIdle
    /\ AppIdle

NextBulk ==
    \/ HandleSearch("cat", FALSE, MaxBulk)
    \/ \E s \in SearchIds, d \in BulkBodies :
           DictionaryResponse(s, [kind |-> "ok", data |-> d])
    \/ \E i \in CallIds, o \in SearchProbeOutcomes : SearchProbeResponse(i, o)
    \/ \E i \in CallIds, o \in SearchResponses :
           SearchTranslationResponse(i, o, FALSE)

SpecBulk == InitBulk /\ [][NextBulk]_vars

(***************************************************************************)
(* SpecFavorites: toggles and clearings of the favorites, from the         *)
(* favorites an earlier session saved, with searches in English whose      *)
(* lookup is answered (the star needs a displayed entry).                  *)
(***************************************************************************)
FavWords == {"cat", "dog", "sun"}

\* The lists of saved words: a toggle never adds a word twice
FavLists ==
    {l \in UNION {[1..n -> FavWords] : n \in 0..3} :
        \A i, j \in DOMAIN l : l[i] = l[j] => i = j}

\* The item 'dictionaryFavorites' an earlier session may have left
SavedFavorites ==
    {NoItem} \cup {[present |-> TRUE, items |-> l] : l \in FavLists}

\* if (savedFavorites) setFavorites(JSON.parse(savedFavorites))
LoadedFavorites(saved) == IF saved.present THEN saved.items ELSE <<>>

InitFavorites ==
    /\ language = "en"
    /\ translationCache = EmptyCache
    /\ storedCache = EmptyCache
    /\ now = 0
    /\ calls = <<>>
    /\ RelIdle
    /\ AggIdle
    /\ SrIdle
    /\ LoadIdle
    /\ storedFavorites \in SavedFavorites
    /\ favorites = LoadedFavorites(storedFavorites)
    /\ toggles = <<>>
    /\ storedLanguage = language
    /\ version = "README.md"
    /\ changes = <<>>

NextFavorites ==
    \/ HandleSearch("cat", FALSE, MaxOverlap)
    \/ \E s \in SearchIds, o \in DictOutcomes(SearchBodies) :
           DictionaryResponse(s, o)
    \/ \E w \in FavWords, throws \in BOOLEAN :
           ToggleFavorite(w, throws, MaxToggles)
    \/ \E throws \in BOOLEAN : ClearFavorites(throws, MaxToggles)

SpecFavorites == InitFavorites /\ [][NextFavorites]_vars

(***************************************************************************)
(* SpecLanguage: a search of 'cat' and a change of language, with the      *)
(* dictionary and the translation requests answered.  The related-word     *)
(* requests stay unanswered.                                               *)
(***************************************************************************)
NextLanguage ==
    \/ HandleSearch("cat", FALSE, MaxOverlap)
    \/ \E s \in SearchIds, o \in LiveDictOutcomes : DictionaryResponse(s, o)
    \/ \E i \in CallIds, o \in SearchProbeOutcomes : SearchProbeResponse(i, o)
    \/ \E i \in CallIds, o \in SearchResponses :
           SearchTranslationResponse(i, o, FALSE)
    \/ \E lang \in Languages : ChangeLanguage(lang, FALSE, MaxChanges)

SpecLanguage == InitSearch /\ [][NextLanguage]_vars

(***************************************************************************)
(* The handlers of src/App.tsx.  The repository holds the handlers twice:  *)
(* the listing in README.md wraps every write to localStorage in           *)
(* try/catch, src/App.tsx writes without.  There a setItem that throws     *)
(* ends the handler at the write: what the handler has set stays set,      *)
(* what follows the write does not run.  src/App.tsx keeps no translation  *)
(* cache and no translations of definitions; its languages are 'en', 'pt'  *)
(* and 'es'.                                                               *)
(***************************************************************************)
Versions == {"README.md", "src/App.tsx"}

\* type Language = 'en' | 'pt' | 'es'
AppLanguages == {"en", "pt", "es"}

\* The languages of the buttons of a version
LanguagesOf(v) == IF v = "README.md" THEN Languages ELSE AppLanguages

\* The effects of the synchronous part of handleSearch in src/App.tsx
SyncEffectsApp(lang, throws) ==
    IF throws THEN <<"setWord", "setHistory", "setItem:throws">>
    ELSE <<"setWord", "setHistory", "setItem", "setLoading", "setError",
           "fetch:dictionary">>
             \o RelRequests
             \o (IF lang = "en" THEN <<>> ELSE <<"fetch:translate">>)

\* handleSearch(w) of src/App.tsx; throws: the setItem of addToHistory
\* throws, and handleSearch rejects before Promise.all
HandleSearchApp(w, throws, max) ==
    /\ version = "src/App.tsx"
    /\ Len(searches) < max
    /\ IF IsBlank(w)
       THEN /\ ~throws
            /\ searches' = Append(searches, BlankSearch(w))
            /\ UNCHANGED <<word, history, storedHistory, loading, error,
                           relCalls>>
       ELSE /\ word' = w
            /\ history' = NewHistory(history, w)
            /\ storedHistory' =
                   StoreHistory(storedHistory, NewHistory(history, w), throws)
            /\ loading' = (IF throws THEN loading ELSE TRUE)
            /\ error' = IF throws THEN error ELSE "null"
            /\ relCalls' =
                   IF throws THEN relCalls
                   ELSE Append(relCalls,
                            [pc |-> "waiting",
                             resp |-> [i \in 1..3 |-> PendingResp],
                             before |-> relatedWords])
            /\ searches' = Append(searches,
                   [BlankSearch(w) EXCEPT
                        !.blank = FALSE,
                        !.sync = SyncEffectsApp(language, throws),
                        !.dict = IF throws THEN "none" ELSE "waiting",
                        !.rel = IF throws THEN 0 ELSE Len(relCalls) + 1])
    /\ UNCHANGED <<trVars, relatedWords, definitions, translation,
                   audioPlaying, audioLang, definitionTranslations,
                   exampleTranslations>>
    /\ UNCHANGED <<aggVars, ldVars, uiVars, changes>>

\* The effects of changeLanguage in src/App.tsx
LanguageEffectsApp(throws, w) ==
    IF throws THEN <<"setLanguage", "setItem:throws">>
    ELSE <<"setLanguage", "setItem">>
             \o (IF w = "" THEN <<>> ELSE <<"fetchTranslation">>)

\* changeLanguage(lang) of src/App.tsx; throws: the setItem throws
ChangeLanguageApp(lang, throws, max) ==
    /\ version = "src/App.tsx"
    /\ Len(changes) < max
    /\ language' = lang
    /\ storedLanguage' = IF throws THEN storedLanguage ELSE lang
    /\ changes' = Append(changes,
           [ from |-> language, to |-> lang, threw |-> throws, word |-> word,
             searched |-> Len(searches),
             sync |-> LanguageEffectsApp(throws, word),
             tr |-> 0, defCalls |-> EmptyMap, exCalls |-> EmptyMap,
             pc |-> "done" ])
    /\ UNCHANGED <<translationCache, storedCache, now, calls>>
    /\ UNCHANGED <<relVars, aggVars, srVars, ldVars, favVars, version>>

(***************************************************************************)
(* SpecWrites: the handlers that write to localStorage, in either version  *)
(* of the handlers, with writes that throw.  The dictionary and the        *)
(* related-word requests stay unanswered; the translation requests of the  *)
(* listing in README.md are answered.                                      *)
(***************************************************************************)
InitWrites ==
    /\ version \in Versions
    /\ language \in LanguagesOf(version)
    /\ translationCache = EmptyCache
    /\ storedCache = EmptyCache
    /\ now = 0
    /\ calls = <<>>
    /\ RelIdle
    /\ AggIdle
    /\ SrIdle
    /\ LoadIdle
    /\ storedFavorites \in {NoItem, [present |-> TRUE, items |-> <<"cat">>]}
    /\ favorites = LoadedFavorites(storedFavorites)
    /\ toggles = <<>>
    /\ storedLanguage = language
    /\ changes = <<>>

NextWrites ==
    \/ \E w \in SearchWords, throws \in BOOLEAN :
           /\ version = "README.md"
           /\ HandleSearch(w, throws, MaxOverlap)
    \/ \E w \in SearchWords, throws \in BOOLEAN :
           HandleSearchApp(w, throws, MaxOverlap)
    \/ \E w \in FavWords, throws \in BOOLEAN :
           ToggleFavorite(w, throws, MaxToggles)
    \/ \E lang \in Languages, throws \in BOOLEAN :
           /\ version = "README.md"
           /\ ChangeLanguage(lang, throws, MaxChanges)
    \/ \E lang \in AppLanguages, throws \in BOOLEAN :
           ChangeLanguageApp(lang, throws, MaxChanges)
    \/ \E i \in CallIds, o \in SearchProbeOutcomes : SearchProbeResponse(i, o)
    \/ \E i \in CallIds, o \in SearchResponses, quota \in BOOLEAN :
           SearchTranslationResponse(i, o, quota)

SpecWrites == InitWrites /\ [][NextWrites]_vars

(***************************************************************************)
(* SpecLoad: the mount.  The component renders with the initial states,    *)
(* the effect loadPersistedData runs, and the component renders again with *)
(* what the effect has set.  A saved item and a state are named by the     *)
(* class of their value: "absent" (getItem gives null); "written" (the     *)
(* JSON the application writes for the item); "invalid" (text that is not  *)
(* JSON); "null" (JSON of a value that is no list and no object); a theme  *)
(* or a language by its text, 'pt' being a language the earlier version of *)
(* the application saves.                                                  *)
(***************************************************************************)
JsonItems     == {"absent", "written", "invalid", "null"}
ThemeItems    == {"absent", "light", "dark", "blue"}
LanguageItems == {"absent", "en", "pt-BR", "pt"}

Storages ==
    {st \in [StorageKeys -> JsonItems \cup ThemeItems \cup LanguageItems] :
        /\ st["dictionaryFavorites"] \in JsonItems
        /\ st["dictionaryHistory"] \in JsonItems
        /\ st["translationCache"] \in JsonItems
        /\ st["dictionaryTheme"] \in ThemeItems
        /\ st["dictionaryLanguage"] \in LanguageItems}

\* if (saved): getItem gave a string that is not empty
Saved(item) == item # "absent"

\* JSON.parse(saved) throws
ParseThrows(item) == item = "invalid"

\* The states after loadPersistedData: the five items are read, then each
\* saved one is set in the order favorites, history, theme, language,
\* translations; the first JSON.parse that throws ends the load in the
\* catch block, with the states set before it kept.
Loaded(st) ==
    LET fav  == st["dictionaryFavorites"]
        hist == st["dictionaryHistory"]
        thm  == st["dictionaryTheme"]
        lang == st["dictionaryLanguage"]
        tr   == st["translationCache"]
        s1 == IF Saved(fav) /\ ~ParseThrows(fav)
              THEN [Defaults EXCEPT !.favorites = fav] ELSE Defaults
        stop1 == Saved(fav) /\ ParseThrows(fav)
        s2 == IF ~stop1 /\ Saved(hist) /\ ~ParseThrows(hist)
              THEN [s1 EXCEPT !.history = hist] ELSE s1
        stop2 == stop1 \/ (Saved(hist) /\ ParseThrows(hist))
        s3 == IF ~stop2 /\ Saved(thm) THEN [s2 EXCEPT !.theme = thm] ELSE s2
        s4 == IF ~stop2 /\ Saved(lang) THEN [s3 EXCEPT !.language = lang] ELSE s3
    IN  IF ~stop2 /\ Saved(tr) /\ ~ParseThrows(tr)
        THEN [s4 EXCEPT !.translationCache = tr] ELSE s4

\* The mount effect; denied: localStorage.getItem throws
LoadPersistedData(denied) ==
    /\ boot.pc = "mounting"
    /\ boot' = [pc |-> "loaded",
                state |-> IF denied THEN Defaults ELSE Loaded(storage)]
    /\ UNCHANGED storage
    /\ UNCHANGED <<trVars, relVars, aggVars, srVars, uiVars, changes>>

\* The render throws: texts[language] is undefined for a language without
\* table and t.wordNotFound is read; history.length, favorites.length or
\* their map is read on a value that is no list
RenderThrows(state) ==
    \/ state.language \notin Languages
    \/ state.history \notin {"empty", "written"}
    \/ state.favorites \notin {"empty", "written"}

\* The render that follows the effect; a render that throws unmounts the
\* component
Render ==
    /\ boot.pc = "loaded"
    /\ boot' = [boot EXCEPT !.pc = IF RenderThrows(boot.state)
                                   THEN "crashed" ELSE "rendered"]
    /\ UNCHANGED storage
    /\ UNCHANGED <<trVars, relVars, aggVars, srVars, uiVars, changes>>

InitLoad ==
    /\ storage \in Storages
    /\ boot = [pc |-> "mounting", state |-> Defaults]
    /\ TrIdle
    /\ RelIdle
    /\ AggIdle
    /\ word = ""
    /\ history = <<>>
    /\ storedHistory = NoItem
    /\ definitions = <<>>
    /\ translation = NoTranslation
    /\ loading = FALSE
    /\ audioPlaying = FALSE
    /\ audioLang = "none"
    /\ definitionTranslations = EmptyMap
    /\ exampleTranslations = EmptyMap
    /\ searches = <<>>
    /\ UiIdle

NextLoad ==
    \/ \E denied \in BOOLEAN : LoadPersistedData(denied)
    \/ Render

SpecLoad == InitLoad /\ [][NextLoad]_vars

(***************************************************************************)
(* Claims on the translation client and its cache.                         *)
(***************************************************************************)
\* The call consulted the cache and read an entry of its key
ReadEntry(c) == c.consulted /\ c.read # NoEntry

\* The call consulted the cache and did not return from it
Missed(c) == c.consulted /\ ~c.hit

\* C1 as stated: a lookup that finds the entry (v, t) a call stored for its
\* key, at a time t' <= t + 24h, the instant t + 24h included, is a hit
\* returning v, and at a time t' > t + 24h it is a miss.
C1_ExpiryInclusive ==
    \A i \in CallIds :
        LET c == calls[i] IN
        (ReadEntry(c) /\ \E j \in CallIds : calls[j].stored = c.read) =>
            /\ c.readAt <= c.read.timestamp + CACHE_TTL
                   => c.hit /\ c.result = c.read.text
            /\ c.readAt > c.read.timestamp + CACHE_TTL => ~c.hit

\* C1 amended: a lookup that finds the entry (v, t) of its key at a time
\* t' < t + 24h is a hit returning v; at a time t' >= t + 24h, the instant
\* t + 24h included, it is a miss, as is a lookup that finds no entry.
C1_ExpiryExclusive ==
    \A i \in CallIds :
        LET c == calls[i] IN
        c.consulted =>
            /\ (c.read # NoEntry /\ c.readAt < c.read.timestamp + CACHE_TTL)
                   => c.hit /\ c.pc = "done" /\ c.result = c.read.text
            /\ (c.read = NoEntry \/ c.readAt >= c.read.timestamp + CACHE_TTL)
                   => ~c.hit /\ c.reqs >= 1

\* C1 witness: an entry stored by a call is looked up exactly 24h later,
\* and the lookup is a miss.
C1_LookupAtExpiry ==
    \E i, j \in CallIds :
        /\ calls[i].stored # NoEntry
        /\ calls[j].key = calls[i].key
        /\ calls[j].consulted
        /\ calls[j].read = calls[i].stored
        /\ calls[j].readAt = calls[i].stored.timestamp + CACHE_TTL
        /\ ~calls[j].hit

\* C2 as stated: when the calls one handler makes for distinct keys all miss
\* and all succeed (translation stored and saved), then once all are done
\* the cache, in memory and as saved, holds an entry for each of their keys
\* and for every key that had one before.
C2_NoLostUpdate ==
    \A b \in CallIds :
        LET batch == {i \in CallIds : calls[i].batch = b} IN
        ( /\ Cardinality(batch) >= 2
          /\ \A i \in batch :
                 /\ calls[i].pc = "done"
                 /\ Missed(calls[i])
                 /\ calls[i].status = "ok"
                 /\ calls[i].stored # NoEntry
                 /\ calls[i].persisted
          /\ \A i, j \in batch : i # j => calls[i].key # calls[j].key )
        => \A i \in batch :
               /\ translationCache[calls[i].key] # NoEntry
               /\ storedCache[calls[i].key] # NoEntry
               /\ \A k \in AllKeys :
                      calls[i].cache[k] # NoEntry
                          => /\ translationCache[k] # NoEntry
                             /\ storedCache[k] # NoEntry

\* C3: a call whose target language is English returns its text unchanged,
\* has issued no request, has not read the cache and has stored nothing.
C3_EnglishFastPath ==
    \A i \in CallIds :
        LET c == calls[i] IN
        (c.lang = "en" /\ c.pc # "held") =>
            /\ c.pc = "done"
            /\ c.result = c.text
            /\ c.reqs = 0
            /\ ~c.consulted
            /\ c.stored = NoEntry

\* C3 witness: an English call has returned while the cache held a
\* translation for its key.
C3_EnglishCallReturned ==
    \E i \in CallIds :
        /\ calls[i].lang = "en"
        /\ calls[i].pc = "done"
        /\ calls[i].cache[calls[i].key] # NoEntry
        /\ calls[i].result = calls[i].text

\* C4: a call with a non-English target whose key has an entry younger than
\* 24h in the cache it reads returns that entry's text and issues no
\* request.
C4_HitNoRequest ==
    \A i \in CallIds :
        LET c == calls[i]
            cached == c.cache[c.key] IN
        ( /\ c.lang # "en"
          /\ c.pc # "held"
          /\ cached # NoEntry
          /\ c.readAt - cached.timestamp < CACHE_TTL )
        => c.pc = "done" /\ c.result = cached.text /\ c.reqs = 0

\* C4 witness: a call returned a translation that an earlier call stored,
\* one millisecond before its expiry, without a request.
C4_HitBeforeExpiry ==
    \E i, j \in CallIds :
        /\ calls[i].stored # NoEntry
        /\ calls[j].lang # "en"
        /\ calls[j].hit
        /\ calls[j].read = calls[i].stored
        /\ calls[j].readAt = calls[i].stored.timestamp + CACHE_TTL - 1
        /\ calls[j].result = calls[i].stored.text
        /\ calls[j].reqs = 0

\* C5 as stated: a call that misses the cache has issued exactly one
\* request.
C5_OneRequest ==
    \A i \in CallIds : Missed(calls[i]) => calls[i].reqs = 1

\* C5 amended: a call that misses the cache issues one request to the
\* service without the text and, only when that request is answered with a
\* success status, one more request that carries the text: two requests
\* when the first is answered ok, one otherwise.
C5_ProbeThenRequest ==
    \A i \in CallIds :
        LET c == calls[i] IN
        Missed(c) =>
            /\ c.pc = "probe" => c.reqs = 1 /\ c.probe = "none"
            /\ c.pc = "fetch" => c.reqs = 2 /\ c.probe = "ok"
            /\ c.pc = "done" =>
                   /\ c.probe # "none"
                   /\ c.reqs = IF c.probe = "ok" THEN 2 ELSE 1

\* C5 witness: a call that missed returned the translation it fetched,
\* having issued two requests.
C5_TwoRequests ==
    \E i \in CallIds :
        /\ Missed(calls[i])
        /\ calls[i].pc = "done"
        /\ calls[i].stored # NoEntry
        /\ calls[i].reqs = 2

\* A request of the call failed: a rejected fetch, a status that is not a
\* success, or a body without a translation.
RequestFailed(c) ==
    \/ c.probe \in {"neterr", "notok"}
    \/ c.status \in {"neterr", "notok"}
    \/ c.body \in {"malformed", "nodata"}

\* C6 as stated: a call one of whose requests failed (network error,
\* malformed body, non-success status) returns its original text.
C6_FailureReturnsOriginal ==
    \A i \in CallIds :
        LET c == calls[i] IN
        (c.pc = "done" /\ RequestFailed(c)) => c.result = c.text

(***************************************************************************)
(* Claims on the related-word aggregation.                                 *)
(***************************************************************************)
\* The concatenation the merge starts from
Sources == Concat(synonyms, triggers, adjectives)

WordsOf(a) == {a[p].word : p \in 1..Len(a)}

\* The position of the first item of word w in a
FirstPos(a, w) ==
    CHOOSE p \in 1..Len(a) : a[p].word = w /\ \A q \in 1..(p - 1) : a[q].word # w

\* The place of word w in the score-descending order of the first items,
\* after every word of higher score and every earlier word of equal score;
\* pos and score give each word's first position and the score there
Rank(w, pos, score) ==
    1 + Cardinality({v \in DOMAIN pos :
            \/ score[v] > score[w]
            \/ score[v] = score[w] /\ pos[v] < pos[w]})

\* C7: the list an aggregation produces has at most 30 items and no word
\* text twice.
C7_AtMost30NoDuplicates ==
    aggregated =>
        /\ Len(relatedWords) <= 30
        /\ \A i, j \in 1..Len(relatedWords) :
               i # j => relatedWords[i].word # relatedWords[j].word

\* C7 witness: an aggregation of lists that repeat words and hold more than
\* 30 distinct words has produced a list of 30.
C7_TruncatedAndDeduplicated ==
    /\ aggregated
    /\ \E src \in {Sources} :
           /\ Cardinality(WordsOf(src)) > 30
           /\ Len(src) > Cardinality(WordsOf(src))
    /\ Len(relatedWords) = 30

\* C8: the list an aggregation produces is in descending order of score:
\* each item's score is at least the next item's.
C8_SortedByScoreDescending ==
    aggregated =>
        \A i \in 1..(Len(relatedWords) - 1) :
            relatedWords[i].score >= relatedWords[i + 1].score

\* C8 witness: an aggregation of lists whose concatenation rises in score
\* somewhere has produced a list of three or more scores.
C8_SortedUnsortedInput ==
    /\ aggregated
    /\ \E src \in {Sources} :
           \E p \in 1..(Len(src) - 1) : src[p].score < src[p + 1].score
    /\ Cardinality({relatedWords[i].score : i \in 1..Len(relatedWords)}) >= 3

\* C9: the list an aggregation produces is the first 30 items of the
\* score-descending order of the first occurrences in synonyms, triggers,
\* adjectives: it holds min(30, number of words) items, the item at place r
\* is the first occurrence of the word of rank r (so a word of several lists
\* has the score of its earliest list), and no omitted word has a higher
\* score than an included one.
C9_MergePolicy ==
    aggregated =>
        \A src \in {Sources} :
        \A pos \in {[w \in WordsOf(src) |-> FirstPos(src, w)]} :
        \A score \in {[w \in DOMAIN pos |-> src[pos[w]].score]} :
            /\ Len(relatedWords) = Min(30, Cardinality(DOMAIN pos))
            /\ \A r \in 1..Len(relatedWords) :
                   /\ relatedWords[r].word \in DOMAIN pos
                   /\ relatedWords[r] = src[pos[relatedWords[r].word]]
                   /\ Rank(relatedWords[r].word, pos, score) = r
            /\ \A w \in DOMAIN pos \ WordsOf(relatedWords) :
                   \A r \in 1..Len(relatedWords) :
                       score[w] <= relatedWords[r].score

\* C9 witness: an aggregation has left words out while a shown word occurs
\* in two lists with different scores.
C9_EarliestSourceWins ==
    /\ aggregated
    /\ \E src \in {Sources} :
           /\ WordsOf(src) \ WordsOf(relatedWords) # {}
           /\ \E r \in 1..Len(relatedWords), p \in 1..Len(src) :
                  /\ src[p].word = relatedWords[r].word
                  /\ src[p].score # relatedWords[r].score

\* C10: the step in which a fetchRelatedWords call fails (a request
\* rejected, or a value that is no list) leaves the list on display and the
\* error state as they were.
C10_FailureKeepsList ==
    [][\A c \in RelCallIds :
           (relCalls[c].pc = "waiting" /\ relCalls'[c].pc = "failed")
               => relatedWords' = relatedWords /\ error' = error]_vars

\* C10 witness: all three requests of a call have failed, and the list an
\* earlier call put on display is still there with no error set.
C10_AllFailedListKept ==
    \E c \in RelCallIds :
        /\ relCalls[c].pc = "failed"
        /\ \A i \in 1..3 : relCalls[c].resp[i].st = "reject"
        /\ relCalls[c].before # <<>>
        /\ relatedWords = relCalls[c].before
        /\ error = "null"

(***************************************************************************)
(* Claims on the search history.                                           *)
(***************************************************************************)
\* A step is a search for a word that is not blank
SearchStep ==
    /\ Len(searches') = Len(searches) + 1
    /\ ~searches'[Len(searches')].blank

\* The positions of h whose word differs from w ignoring case
KeptPositions(h, w) ==
    {i \in 1..Len(h) : ToLowerCase(h[i]) # ToLowerCase(w)}

C12_HistoryBounded ==
    /\ Len(history) <= 15
    /\ \A i, j \in 1..Len(history) :
           i # j => ToLowerCase(history[i]) # ToLowerCase(history[j])

\* C12 witness: a full history of 15 loaded from the saved item has taken a
\* new word and, after that, a word it held in another case, and has 15
\* entries.
C12_FullHistorySearched ==
    /\ Len(searches) >= 2
    /\ Len(searches[1].before) = 15
    /\ searches[1].word = "Hello"
    /\ searches[2].word = "W3"
    /\ Len(searches[2].before) = 15
    /\ Len(history) = 15
    /\ history[1] = "w3"

\* C14: a search for an empty or whitespace-only word changes none of word,
\* history (state and saved item), definitions, related words, translation,
\* error and loading, and issues no request.
C14_BlankSearchNoOp ==
    [][\A w \in HistoryWords :
           (Trim(w) = "" /\ Len(searches') = Len(searches) + 1
                /\ searches'[Len(searches')].word = w)
           => /\ UNCHANGED <<word, history, storedHistory, definitions,
                             relatedWords, translation, error, loading>>
              /\ UNCHANGED <<calls, relCalls>>
              /\ searches'[Len(searches')].sync = <<>>]_vars

\* C14 witness: a whitespace-only search was made after a search for a
\* word, and the word, the history and the loading state of that search are
\* still there.
C14_WhitespaceSearchIgnored ==
    /\ Len(searches) = 2
    /\ searches[1].word = "Hello"
    /\ searches[2].word = "  "
    /\ searches[2].sync = <<>>
    /\ word = "Hello"
    /\ history[1] = "hello"
    /\ loading
    /\ Len(relCalls) = 1

(***************************************************************************)
(* Claims on the search and its three calls.                               *)
(***************************************************************************)
Fetches ==
    {"fetch:dictionary", "fetch:rel_syn", "fetch:rel_trg", "fetch:rel_jjb",
     "fetch:translate"}

\* C13: in the synchronous part of every search, the history update
\* (setHistory and the write of the saved item, also when the write
\* throws) comes before each request, and the dictionary request and the
\* three related-word requests are issued.
C13_HistoryBeforeRequests ==
    \A s \in SearchIds :
        LET sync == searches[s].sync IN
        ~searches[s].blank =>
            /\ \A p \in DOMAIN sync :
                   sync[p] \in Fetches =>
                       /\ \E a \in 1..(p - 1) : sync[a] = "setHistory"
                       /\ \E a \in 1..(p - 1) :
                              sync[a] \in {"setItem", "setItem:throws"}
            /\ Fetches \ {"fetch:translate"} \subseteq
                   {sync[p] : p \in DOMAIN sync}

\* C13 witness: a search in Portuguese has updated and saved the history
\* and has issued its five requests.
C13_SearchWithFiveRequests ==
    \E s \in SearchIds :
        /\ searches[s].lang = "pt-BR"
        /\ Fetches \subseteq {searches[s].sync[p] : p \in DOMAIN searches[s].sync}
        /\ history[1] = ToLowerCase(searches[s].word)
        /\ storedHistory = [present |-> TRUE, items |-> history]
        /\ calls[searches[s].tr].reqs = 1

\* The step in which the dictionary lookup of search s fails
LookupFails(s) ==
    /\ s \in SearchIds
    /\ searches[s].dict = "waiting"
    /\ searches'[s].dict = "failed"

NotFoundTexts == {"Word not found", "Palavra não encontrada"}

\* C15: a lookup answered 404 sets the "word not found" error; one answered
\* with another status that is not a success, or whose request failed, sets
\* an error that is not "word not found"; in each case the definitions
\* become empty and loading becomes false.
C15_LookupStatusMapping ==
    [][\A s \in SearchIds :
           LookupFails(s) =>
               /\ searches'[s].outcome = "status404" =>
                      /\ error' \in NotFoundTexts
                      /\ error' = IF searches[s].lang = "en"
                                  THEN "Word not found"
                                  ELSE "Palavra não encontrada"
               /\ searches'[s].outcome \in {"status500", "neterr"} =>
                      error' \notin NotFoundTexts \cup {"null"}
               /\ definitions' = <<>>
               /\ loading' = FALSE]_vars

\* C15 witness: the lookup of a search in Portuguese was answered 404 while
\* its translation had been shown, and the error is the Portuguese "word not
\* found".
C15_NotFoundShown ==
    \E s \in SearchIds :
        /\ searches[s].dict = "failed"
        /\ searches[s].outcome = "status404"
        /\ searches[s].lang = "pt-BR"
        /\ translation = Translated("gato")
        /\ error = "Palavra não encontrada"
        /\ definitions = <<>>
        /\ ~loading

\* C16: once the last search made has settled with a failed lookup, the
\* error state is set, whatever its related-word and translation calls gave
\* and in whatever order the three were answered.
C16_FailedLookupShowsError ==
    \A s \in SearchIds :
        ( /\ Settled(s)
          /\ searches[s].dict = "failed"
          /\ \A later \in SearchIds : later > s => searches[later].blank )
        => error # "null"

\* C16 witness: a search has settled with its lookup failed on the network,
\* its related words shown and its translation fetched, and the error is
\* that of the lookup.
C16_OnlyLookupFailed ==
    \E s \in SearchIds :
        /\ Settled(s)
        /\ searches[s].outcome = "neterr"
        /\ relCalls[searches[s].rel].pc = "done"
        /\ searches[s].tr # 0
        /\ calls[searches[s].tr].stored # NoEntry
        /\ translation = Translated("gato")
        /\ error = "Failed to fetch"

\* The step in which a playback fails
AudioFails ==
    /\ audioLang # "none"
    /\ audioLang' = "none"
    /\ error' \in {"Audio playback unavailable",
                   "Reprodução de áudio indisponível"}

\* C17 as stated: the error state becomes non-null only in the step in
\* which a dictionary lookup fails.
C17_ErrorOnlyFromLookup ==
    [][(error' # error /\ error' # "null")
           => \E s \in SearchIds : LookupFails(s)]_vars

\* C17 amended: the error state becomes non-null only in the step in which
\* a dictionary lookup fails or in the step in which an audio playback
\* fails, which sets the "audio unavailable" text; no step of a
\* related-word call, of a translation call or of a write to the saved
\* items sets it.
C17_ErrorFromLookupOrAudio ==
    [][/\ (error' # error /\ error' # "null")
              => (\E s \in SearchIds : LookupFails(s)) \/ AudioFails
       /\ (audioLang # "none" /\ audioLang' = "none" /\ error' # error)
              => AudioFails]_vars

\* C17 witness: the playback of the pronunciation of a word found has
\* failed, and the error is the "audio unavailable" text.
C17_AudioFailureShown ==
    /\ \E s \in SearchIds : searches[s].dict = "done"
    /\ definitions # <<>>
    /\ audioLang = "none"
    /\ error \in {"Audio playback unavailable",
                  "Reprodução de áudio indisponível"}

(***************************************************************************)
(* Claims on the translation of definitions and examples.                  *)
(***************************************************************************)
\* The search has had its lookup answered with entries, in Portuguese
BulkStarted(sr) ==
    ~sr.blank /\ sr.outcome = "ok" /\ ~IsSourceLanguage(sr.lang)

ItemsWithExample(data) == {it \in ItemsOf(data) : HasExample(data, it)}

\* C18 as stated: after a lookup that succeeded, no two definitions of the
\* entries returned have the same definition key, no two examples the same
\* example key, and translateText has been called once for each definition
\* and once for each example.
C18_OneKeyAndCallPerItem ==
    \A s \in SearchIds :
        LET sr == searches[s]
            d  == sr.data IN
        BulkStarted(sr) =>
            /\ \A a, b \in ItemsOf(d) :
                   a # b => ItemDefKey(d, a) # ItemDefKey(d, b)
            /\ \A a, b \in ItemsWithExample(d) :
                   a # b => ItemExampleKey(d, a) # ItemExampleKey(d, b)
            /\ Cardinality(BulkIds(sr))
                   = Cardinality(ItemsOf(d)) + Cardinality(ItemsWithExample(d))

\* The call was given a translation: from the cache it reads, or by the
\* service in answer to its second request
GotTranslation(c) ==
    \/ c.hit
    \/ c.probe = "ok" /\ c.status = "ok" /\ c.body \in ServiceTexts

\* What the map holds for a call: the translation it was given, or the text
\* it was called with
ExpectedText(c) ==
    IF c.hit THEN c.read.text
    ELSE IF GotTranslation(c) THEN c.body
    ELSE c.text

\* The step in which translateDefinitionsAndExamples of search s ends
BulkEnds(s) ==
    /\ s \in SearchIds
    /\ searches[s].dict \in {"waiting", "translating"}
    /\ searches'[s].dict = "done"
    /\ BulkStarted(searches'[s])

ItemOf ==
    [favorites |-> "dictionaryFavorites", history |-> "dictionaryHistory",
     theme |-> "dictionaryTheme", language |-> "dictionaryLanguage",
     translationCache |-> "translationCache"]

\* The item is one the application writes
WellFormed(field, item) ==
    CASE field = "theme"    -> item \in {"light", "dark"}
      [] field = "language" -> item \in Languages
      [] OTHER              -> item = "written"

\* C20 as stated: the mount never ends with the component unmounted by an
\* error, and once the persisted data is loaded every state whose saved
\* item is absent or corrupted has its initial value.
C20_LoadNeverFatal ==
    /\ boot.pc # "crashed"
    /\ boot.pc \in {"loaded", "rendered"} =>
           \A field \in DOMAIN ItemOf :
               ~WellFormed(field, storage[ItemOf[field]])
                   => boot.state[field] = Defaults[field]

\* The last two calls of `toggles` are toggles of one word, one right after
\* the other
ToggledTwice ==
    /\ Len(toggles) >= 2
    /\ toggles[Len(toggles) - 1].op = "toggle"
    /\ toggles[Len(toggles)].op = "toggle"
    /\ toggles[Len(toggles) - 1].word = toggles[Len(toggles)].word

\* The words of a saved item
SavedWords(saved) == Range(LoadedFavorites(saved))

\* C22, as stated: after the same word was toggled twice in a row the
\* favorites hold the words they held before the two toggles, and so does
\* the persisted item.
C22_TwoTogglesRestoreAll ==
    ToggledTwice =>
        LET first == toggles[Len(toggles) - 1] IN
        /\ Range(favorites) = Range(first.before)
        /\ SavedWords(storedFavorites) = Range(first.before)

\* C22, amended: after the same word was toggled twice in a row the
\* favorites hold the words they held before; the list is the one before
\* when the word was absent, and has the word moved to its end when the word
\* was present.  The persisted item is that list when the second write
\* succeeded, and is what it was before the second toggle when that write
\* threw.
C22_TwoTogglesRestoreWords ==
    ToggledTwice =>
        LET first  == toggles[Len(toggles) - 1]
            second == toggles[Len(toggles)]
            w      == first.word IN
        /\ Range(favorites) = Range(first.before)
        /\ w \notin Range(first.before) => favorites = first.before
        /\ w \in Range(first.before) =>
               favorites = Append(SelectSeq(first.before, LAMBDA x : x # w), w)
        /\ ~second.threw =>
               storedFavorites = [present |-> TRUE, items |-> favorites]
        /\ second.threw => storedFavorites = second.stored

\* A saved word that was not the last of the list has been toggled twice,
\* both writes succeeding
C22_MiddleWordToggledTwice ==
    /\ ToggledTwice
    /\ LET first == toggles[Len(toggles) - 1] IN
       /\ Len(first.before) >= 2
       /\ first.word = first.before[1]
       /\ ~first.threw
       /\ ~toggles[Len(toggles)].threw
       /\ favorites # first.before

\* The step of a handler whose write to localStorage threw still does what
\* the handler does when the write succeeds: the search sets the word and
\* the history and issues its requests; the toggle and the clearing set the
\* favorites; the language change sets the language and starts the
\* translation of the displayed word; the translation is cached in memory
\* and returned.
WriteFailureNonFatal ==
    /\ Len(searches') > Len(searches) =>
           LET sr == searches'[Len(searches')] IN
           "setItem:throws" \in Range(sr.sync) =>
               /\ word' = sr.word
               /\ history' = NewHistory(history, sr.word)
               /\ loading'
               /\ {"fetch:dictionary"} \cup Range(RelRequests)
                      \subseteq Range(sr.sync)
               /\ \/ language = "en"
                  \/ sr.tr # 0
                  \/ "fetch:translate" \in Range(sr.sync)
    /\ Len(toggles') > Len(toggles) =>
           LET tg == toggles'[Len(toggles')] IN
           tg.threw =>
               favorites' = IF tg.op = "toggle"
                            THEN NewFavorites(favorites, tg.word) ELSE <<>>
    /\ Len(changes') > Len(changes) =>
           LET ch == changes'[Len(changes')] IN
           ch.threw =>
               /\ language' = ch.to
               /\ word # "" => "fetchTranslation" \in Range(ch.sync)
    /\ \A i \in CallIds :
           /\ calls[i].pc = "fetch"
           /\ calls'[i].stored # NoEntry
           /\ ~calls'[i].persisted
           => /\ translationCache'[calls[i].key] = calls'[i].stored
              /\ calls'[i].pc = "done"
              /\ calls'[i].result = calls'[i].body

\* C21: a write to the persisted store that fails during a history update,
\* a favorite toggle, a language change or a cache store leaves the
\* in-memory state updated and the operation going on; a search whose
\* history write fails still issues its dictionary, related-word and
\* translation calls.
C21_WriteFailureNonFatal == [][WriteFailureNonFatal]_vars

\* Search s has started its three calls
Started(s) == s \in SearchIds /\ ~searches[s].blank

\* The promise of search s is fulfilled
Completed(s) == Started(s) /\ SearchPromise(s) = "fulfilled"

\* The promise of a started search is never rejected, and is fulfilled only
\* with its lookup, its related words and its translation all settled
CompletesAfterAll ==
    \A s \in SearchIds :
        ~searches[s].blank =>
            /\ SearchPromise(s) # "rejected"
            /\ SearchPromise(s) = "fulfilled" =>
                   /\ searches[s].dict \in {"done", "failed"}
                   /\ relCalls[searches[s].rel].pc # "waiting"
                   /\ searches[s].tr # 0 => calls[searches[s].tr].pc = "done"

\* C23: a search completes only after its dictionary lookup, its related
\* words and its headword translation have all settled, whatever they gave,
\* and is never rejected; and with every request settled in the end, every
\* started search completes in the end, with loading false.
C23_CompletesOnceAllSettled ==
    /\ []CompletesAfterAll
    /\ \A s \in 1..MaxOverlap :
           Started(s) ~> (Completed(s) /\ ~loading)

\* C23 witness: a search has completed with its lookup failed and its
\* related-word requests rejected, loading false.
C23_CompletedWithFailures ==
    \E s \in SearchIds :
        /\ Started(s)
        /\ SearchPromise(s) = "fulfilled"
        /\ searches[s].dict = "failed"
        /\ relCalls[searches[s].rel].pc = "failed"
        /\ ~loading

\* C24: a network request that failed is sent again without a new user
\* action.  Once a search has completed no handler of it is left to run, so
\* by then a dictionary lookup, a related-word fetch or a translation that
\* failed on the network has been sent a second time.
C24_FailedRequestRetried ==
    \A s \in SearchIds :
        Completed(s) =>
            /\ searches[s].outcome = "neterr" => RequestsSent(s).dictionary > 1
            /\ relCalls[searches[s].rel].pc = "failed" =>
                   RequestsSent(s).related > 3
            /\ ( /\ searches[s].tr # 0
                 /\ calls[searches[s].tr].probe = "neterr" ) =>
                   RequestsSent(s).translation > 1

\* The step in which call i stores the translation it fetched
Stores(i) ==
    /\ calls[i].pc = "fetch"
    /\ calls'[i].pc = "done"
    /\ calls'[i].stored # NoEntry

\* C25: the translation cache changes only in a step in which a call stores
\* the translation it fetched, and then only at the key of that call: every
\* other step (a fast-path call, a hit, the lookup of an expired entry, a
\* failed fetch) leaves the whole cache as it was, and a store for key k
\* leaves the entry of every other key as it was.
C25_CacheFrame ==
    [][translationCache' # translationCache =>
           \E i \in CallIds :
               /\ Stores(i)
               /\ \A k \in AllKeys \ {calls[i].key} :
                      translationCache'[k] = translationCache[k]]_vars

\* Every request of every search has been answered
AllSettled == \A s \in SearchIds : Started(s) => Completed(s)

\* The search made last
LastSearch == Len(searches)

\* What the interface shows for search s on its own: the definitions or the
\* error of its lookup, its related words when they arrived, its translation
ShowsSearch(s) ==
    LET sr == searches[s] IN
    /\ definitions = (IF sr.dict = "done" THEN sr.data ELSE <<>>)
    /\ error = (IF sr.dict = "failed" THEN LookupMessage(sr.outcome, sr.lang)
                ELSE "null")
    /\ relCalls[sr.rel].pc = "done" =>
           relatedWords = Combined(relCalls[sr.rel].resp[1].data,
                                   relCalls[sr.rel].resp[2].data,
                                   relCalls[sr.rel].resp[3].data)
    /\ translation = (IF sr.tr = 0 THEN NoTranslation
                      ELSE Translated(calls[sr.tr].result))

\* C26: with a search B started while requests of a search A are unanswered,
\* once every request has been answered the definitions, the related words,
\* the headword translation and the error shown are those of B, in whatever
\* order the answers arrived.
C26_LastSearchShown ==
    (Len(searches) >= 2 /\ AllSettled) => ShowsSearch(LastSearch)

\* The dictionary lookup of search s is in flight: fetchDefinitions awaits
\* the dictionary or the translations of the definitions and examples
LookupInFlight(s) == searches[s].dict \in {"waiting", "translating"}

\* C28: loading is true in every state in which a dictionary lookup is in
\* flight, also the lookup of a search started during another, and false in
\* every state in which none is.
C28_LoadingTracksLookups ==
    loading <=> \E s \in SearchIds : LookupInFlight(s)

\* The last changeLanguage call was made with a word displayed, no search
\* was made since, and every translateText call has returned
ChangeSettled ==
    /\ changes # <<>>
    /\ changes[Len(changes)].word # ""
    /\ changes[Len(changes)].searched = Len(searches)
    /\ changes[Len(changes)].pc = "done"
    /\ \A i \in CallIds : calls[i].pc = "done"

\* C27: once changeLanguage(L) was called with a word displayed and every
\* request it caused has settled, the headword translation is null when L
\* is English, and is the translation of the word fetched for L otherwise.
C27_TranslationMatchesLanguage ==
    ChangeSettled =>
        LET ch == changes[Len(changes)] IN
        IF ch.to = "en" THEN translation = NoTranslation
        ELSE /\ ch.tr # 0
             /\ calls[ch.tr].text = ch.word
             /\ calls[ch.tr].lang = ch.to
             /\ translation = Translated(calls[ch.tr].result)

\* C29: in every state, also right after the load of the preferences an
\* earlier session saved, the interface language is 'en' or 'pt-BR', so
\* that texts[language] is defined.
C29_LanguageSupported ==
    /\ language \in Languages
    /\ boot.state.language \in Languages

\* C30: for every displayed definition that has an example, the key the
\* examples panel computes for the example is the key under which bulk
\* translation stored the translation of that example, and likewise for the
\* definition shown with it, also when some definitions have no example.
C30_PanelKeysMatchBulk ==
    \A it \in PanelCards(definitions) :
        /\ PanelExampleKey(definitions, it) = ItemExampleKey(definitions, it)
        /\ PanelDefKey(definitions, it) = ItemDefKey(definitions, it)

=============================================================================
